---- MODULE Spec2Model ----
(***************************************************************************)
(* A model of the atermis searcher: the binary's start-up (main.rs), the   *)
(* MevShareUniArb strategy (strategy.rs), the matchmaker bundle types      *)
(* (types.rs), the relay executors (mev_share_executor.rs,                 *)
(* flashbots_executor.rs), the mempool collector                           *)
(* (generic_mempool_collector.rs) and the engine that runs them.  The      *)
(* engine's own source (artemis-core engine.rs and types.rs) is described  *)
(* by the specification only; the definitions that model it say so.        *)
(***************************************************************************)
EXTENDS Integers, Sequences, FiniteSets, TLC

(***************************************************************************)
(* Bounds of the model.                                                    *)
(***************************************************************************)
\* Events published on the Event bus during one run, over all collectors.
MaxEvents == 3
\* Ladder rungs whose fill or signing fails during one generate_bundles call.
MaxFailedRungs == 1
\* Records of the pool csv file read by sync_state.
MaxCsvRecords == 2
\* Bundles in the payload of one MevshareExecutor::execute call.
MaxBundles == 6
\* Transactions in the payload of one FlashbotsExecutor::execute call.
MaxTxs == 2
\* Tags in a wire array handed to the PrivacyHint deserializer.
MaxHintTags == 2
\* Elements in the body of a wire request handed to the deserializer.
MaxWireBody == 2
\* Senders, and nonces of one sender, in a txpool_content answer.
MaxPending == 2

\* Changes of the node's txpool after get_event_stream is called.
MaxLate == 3

None == "None"

(***************************************************************************)
(* 64-bit unsigned integers (ethers U64).  A value is four 16-bit limbs,   *)
(* most significant first, so that the whole 64-bit range is covered.      *)
(***************************************************************************)
LimbBase == 2 ^ 16

U64 == [1..4 -> 0..(LimbBase - 1)]

U64Max == <<LimbBase - 1, LimbBase - 1, LimbBase - 1, LimbBase - 1>>

\* The U64 of a natural number below 2^31.
U64From(n) == <<0, 0, n \div LimbBase, n % LimbBase>>

\* U64::overflowing_add: the wrapped sum and whether it overflowed.
overflowing_add(a, b) ==
    LET s4 == a[4] + b[4]
        s3 == a[3] + b[3] + (s4 \div LimbBase)
        s2 == a[2] + b[2] + (s3 \div LimbBase)
        s1 == a[1] + b[1] + (s2 \div LimbBase)
    IN  [value |-> <<s1 % LimbBase, s2 % LimbBase, s3 % LimbBase, s4 % LimbBase>>,
         overflow |-> s1 \div LimbBase > 0]

\* U64::saturating_add, as make_simple uses it.
saturating_add(a, b) ==
    LET r == overflowing_add(a, b)
    IN  IF r.overflow THEN U64Max ELSE r.value

\* a <= b on U64 values.
U64Leq(a, b) ==
    \/ a = b
    \/ \E i \in 1..4 : a[i] < b[i] /\ \A j \in 1..(i - 1) : a[j] = b[j]

(***************************************************************************)
(* Outcomes of a call: it returns a value, or it panics (an unwrap of an   *)
(* Err or a None, an index out of range, an arithmetic overflow).          *)
(***************************************************************************)
Returned(v) == [panicked |-> FALSE, value |-> v]

Panicked == [panicked |-> TRUE, value |-> None]

Ok(v) == [ok |-> TRUE, value |-> v]

Err(e) == [ok |-> FALSE, value |-> e]

\* Option: Some(v), and the None of whatever type.
Some(v) == [some |-> TRUE, value |-> v]

NoValue == [some |-> FALSE, value |-> None]

\* U64 `add` (std::ops::Add), as generate_bundles uses it: panics on overflow.
add(a, b) ==
    LET r == overflowing_add(a, b)
    IN  IF r.overflow THEN Panicked ELSE Returned(r.value)

(***************************************************************************)
(* Addresses.  An address literal is the string the source writes; every   *)
(* literal of the source carries the "0x" prefix.  Address::from_str       *)
(* strips the prefix and reads exactly 20 bytes, two hex digits each: any  *)
(* other length is Err(InvalidHexLength).                                  *)
(***************************************************************************)
AddressHexDigits == 2 * 20

from_str(input) ==
    IF Len(input) - Len("0x") = AddressHexDigits
    THEN Ok(input)
    ELSE Err("InvalidHexLength")

(***************************************************************************)
(* matchmaker types (types.rs)                                             *)
(***************************************************************************)
\* The inclusion window length make_simple adds to the first block.
SimpleWindow == 30
\* The refund percentage BundleRequest::new configures.
RefundPercent == 30

\* The address literal of the refund configuration.
RefundAddress == "0x40"

NoHints ==
    [calldata |-> FALSE, contract_address |-> FALSE, logs |-> FALSE,
     function_selector |-> FALSE, hash |-> FALSE, tx_hash |-> FALSE]

\* The allow-listed builder address literals.
Builders ==
    <<"0x1f9090aaE28b8a3dCeaDf281B0F12828e676c326",
      "0x690B9A9E9aa1C9dB991C7721a92d351Db4FaC990",
      "0x95222290DD7278Aa3Ddd389Cc1E1d165CC4BAfe5",
      "0xDAFEA492D9c6733ae3d56b7Ed1ADB60692c98Bc5",
      "0x4838B106FCe9647Bdf1E7877BF73cE8B0BAD5f97">>

\* BundleTx::TxHash { hash }
TxHash(hash) == [variant |-> "TxHash", hash |-> hash]

\* BundleTx::Tx { tx, can_revert }
Tx(tx, can_revert) == [variant |-> "Tx", tx |-> tx, can_revert |-> can_revert]

\* BundleRequest::new.  Every address literal is parsed and unwrapped while
\* the struct is built, so one literal that does not parse panics the call.
new(block_num, max_block, version, transactions) ==
    LET refund_address == from_str(RefundAddress)
        builders == [i \in 1..Len(Builders) |-> from_str(Builders[i])]
    IN  IF ~refund_address.ok \/ \E i \in 1..Len(Builders) : ~builders[i].ok
        THEN Panicked
        ELSE Returned(
               [version |-> version,
                inclusion |-> [block |-> block_num, max_block |-> max_block],
                body |-> transactions,
                validity |->
                    [refund |-> None,
                     refund_config |-> <<[address |-> refund_address.value,
                                          percent |-> RefundPercent]>>],
                privacy |->
                    [hints |-> NoHints,
                     builders |-> [i \in 1..Len(Builders) |-> builders[i].value]]])

\* BundleRequest::make_simple: the last block of the window is computed and
\* everything is handed to BundleRequest::new, whose outcome is the call's.
make_simple(block_num, transactions) ==
    LET max_block == saturating_add(block_num, U64From(SimpleWindow))
    IN  new(block_num, Some(max_block), "beta-1", transactions)

(***************************************************************************)
(* The MevShareUniArb strategy (strategy.rs)                               *)
(***************************************************************************)
\* The ladder of backrun sizes, 10^5 .. 10^18, as U64 limbs.
sizes ==
    <<<<0, 0, 1, 34464>>,           \* 10^5
      <<0, 0, 15, 16960>>,          \* 10^6
      <<0, 0, 152, 38528>>,         \* 10^7
      <<0, 0, 1525, 57600>>,        \* 10^8
      <<0, 0, 15258, 51712>>,       \* 10^9
      <<0, 2, 21515, 58368>>,       \* 10^10
      <<0, 23, 18550, 59392>>,      \* 10^11
      <<0, 232, 54437, 4096>>,      \* 10^12
      <<0, 2328, 20082, 40960>>,    \* 10^13
      <<0, 23283, 4218, 16384>>,    \* 10^14
      <<3, 36222, 42182, 32768>>,   \* 10^15
      <<35, 34546, 28609, 0>>,      \* 10^16
      <<355, 17784, 23946, 0>>,     \* 10^17
      <<3552, 46771, 42852, 0>>>>   \* 10^18

payment_percentage == 40

\* The gas limit set on every arbitrage transaction.
GasLimit == 400000

\* The token borrowed by the flash loan.
WethAddress == "0xC02aaA39b223FE8D0A0e5C4F27eAD9083C756Cc2"

\* MevShareUniArb::new: the strategy starts with an empty pool table.
MevShareUniArb_new == [pool_map |-> [a \in {} |-> None]]

\* pool_map.insert: the table with key k bound to v (a later insert of the
\* same key replaces the earlier one).
insert(pool_map, k, v) ==
    [a \in DOMAIN pool_map \cup {k} |-> IF a = k THEN v ELSE pool_map[a]]

\* sync_state: read the csv file into the pool table.  csv.open is the result
\* of opening the file, csv.records the rows in file order, each one parsed
\* or not.  The first failure returns Err and
\* leaves the rows read so far in the table.
RECURSIVE sync_records(_, _, _)
sync_records(self, records, i) ==
    IF i > Len(records) THEN [result |-> Ok(None), self |-> self]
    ELSE IF ~records[i].parsed THEN [result |-> Err("csv"), self |-> self]
    ELSE sync_records(
           [self EXCEPT !.pool_map =
               insert(@, records[i].v3_pool,
                      [v2_pool |-> records[i].v2_pool,
                       is_weth_token0 |-> records[i].weth_token0])],
           records, i + 1)

sync_state(self, csv) ==
    IF csv.open = "Err"
    THEN [result |-> Err("csv"), self |-> self]
    ELSE sync_records(self, csv.records, 1)

\* The arbitrage call built for one rung: make_flash_loan(tokens, amounts,
\* user_data).tx, with the user data the raw tuple that is abi-encoded.
make_flash_loan(v2_info, v3_address, size) ==
    LET tokens == <<from_str(WethAddress)>>
    IN  IF ~tokens[1].ok THEN Panicked
        ELSE Returned(
               [tokens |-> <<tokens[1].value>>,
                amounts |-> <<size>>,
                user_data |-> <<v2_info.is_weth_token0, v2_info.v2_pool,
                                v3_address, size, payment_percentage>>,
                gas |-> None, gas_price |-> None, nonce |-> None])

\* The rungs i..14 of the ladder loop of generate_bundles, from the bundles
\* and the calls made so far.  node is what the node and the signer answer
\* during this call: node.fill_err and node.sign_err are the rungs whose
\* fill_transaction and sign_transaction fail.
\* inner.set_gas(400000); inner.set_gas_price(bid_gas_price)
set_gas(tx, bid_gas_price) ==
    [tx EXCEPT !.gas = GasLimit, !.gas_price = bid_gas_price]

RECURSIVE ladder(_, _, _, _, _, _, _, _)
ladder(v2_info, v3_address, tx_hash, node, bid_gas_price, block_num, i, acc) ==
    IF i > Len(sizes) THEN [acc EXCEPT !.panicked = FALSE]
    ELSE
    LET built == make_flash_loan(v2_info, v3_address, sizes[i])
    IN  IF built.panicked
        THEN [acc EXCEPT !.panicked = TRUE, !.bundles = << >>]
        ELSE
        LET inner == set_gas(built.value, bid_gas_price)
            filling == [acc EXCEPT !.calls = Append(@, "fill_transaction"),
                                   !.fills = Append(@, inner)]
        IN  IF i \in node.fill_err
            THEN \* Err(e) => continue
                 ladder(v2_info, v3_address, tx_hash, node, bid_gas_price, block_num,
                        i + 1, filling)
            ELSE
            LET arb_tx == [inner EXCEPT !.nonce = node.nonce]
                signing == [filling EXCEPT !.calls = Append(@, "sign_transaction")]
            IN  IF i \in node.sign_err
                THEN \* sign_transaction(..).await.unwrap()
                     [signing EXCEPT !.panicked = TRUE, !.bundles = << >>]
                ELSE
                LET bytes == [rlp_signed |-> arb_tx]
                    txs == <<TxHash(tx_hash), Tx(bytes, FALSE)>>
                    next_block == add(block_num, U64From(1))
                    bundle == IF next_block.panicked THEN Panicked
                              ELSE make_simple(next_block.value, txs)
                IN  IF bundle.panicked
                    THEN [signing EXCEPT !.panicked = TRUE, !.bundles = << >>]
                    ELSE ladder(v2_info, v3_address, tx_hash, node, bid_gas_price,
                                block_num, i + 1,
                                [signing EXCEPT !.bundles = Append(@, bundle.value)])

\* generate_bundles: [panicked, bundles, calls, fills], where calls are the
\* calls made to the node and the signer, in order, and fills the
\* transactions handed to fill_transaction, in order.
generate_bundles(self, v3_address, tx_hash, node) ==
    LET start == [panicked |-> TRUE, bundles |-> << >>, calls |-> << >>,
                  fills |-> << >>]
    IN  IF v3_address \notin DOMAIN self.pool_map
        THEN \* pool_map.get(..).unwrap()
             start
        ELSE IF ~node.gas_price.ok
        THEN [start EXCEPT !.calls = <<"get_gas_price">>]
        ELSE IF ~node.block_number.ok
        THEN [start EXCEPT !.calls = <<"get_gas_price", "get_block_number">>]
        ELSE ladder(self.pool_map[v3_address], v3_address, tx_hash, node,
                    node.gas_price.value, node.block_number.value, 1,
                    [start EXCEPT !.calls = <<"get_gas_price", "get_block_number">>])

\* Action::SubmitBundles(bundles)
SubmitBundles(bundles) == [variant |-> "SubmitBundles", bundles |-> bundles]

\* Event::MEVShareEvent(event)
MEVShareEvent(event) == [variant |-> "MEVShareEvent", event |-> event]

\* process_logs with the table lookup left out (lines 107-109 missing): every
\* first log address goes on to generate_bundles.
process_logs_without_lookup(self, event, node) ==
    IF Len(event.logs) < 1
    THEN [panicked |-> TRUE, action |-> NoValue, calls |-> << >>]
    ELSE
    LET g == generate_bundles(self, event.logs[1], event.hash, node)
    IN  IF g.panicked
        THEN [panicked |-> TRUE, action |-> NoValue, calls |-> g.calls]
        ELSE [panicked |-> FALSE, action |-> Some(SubmitBundles(g.bundles)),
              calls |-> g.calls]

\* process_logs that looks through all the logs of the event for a pool of
\* the table and generates the ladder for the first one it finds.
process_logs_any_log(self, event, node) ==
    LET known == {i \in 1..Len(event.logs) : event.logs[i] \in DOMAIN self.pool_map}
    IN  IF Len(event.logs) < 1
        THEN [panicked |-> TRUE, action |-> NoValue, calls |-> << >>]
        ELSE IF known = {}
        THEN [panicked |-> FALSE, action |-> NoValue, calls |-> << >>]
        ELSE
        LET first == CHOOSE i \in known : \A j \in known : i <= j
            g == generate_bundles(self, event.logs[first], event.hash, node)
        IN  IF g.panicked
            THEN [panicked |-> TRUE, action |-> NoValue, calls |-> g.calls]
            ELSE [panicked |-> FALSE, action |-> Some(SubmitBundles(g.bundles)),
                  calls |-> g.calls]

\* process_event past the empty-log check: index the first log, look its
\* address up and generate the ladder.
process_logs(self, event, node) ==
    IF Len(event.logs) < 1
    THEN \* event.logs[0] out of range
         [panicked |-> TRUE, action |-> NoValue, calls |-> << >>]
    ELSE
    LET address == event.logs[1]
    IN  IF address \notin DOMAIN self.pool_map
        THEN [panicked |-> FALSE, action |-> NoValue, calls |-> << >>]
        ELSE
        LET g == generate_bundles(self, address, event.hash, node)
        IN  IF g.panicked
            THEN [panicked |-> TRUE, action |-> NoValue, calls |-> g.calls]
            ELSE [panicked |-> FALSE, action |-> Some(SubmitBundles(g.bundles)),
                  calls |-> g.calls]

\* process_event with the empty-log check left out (lines 102-104 missing).
process_event_without_empty_check(self, ev, node) ==
    process_logs(self, ev.event, node)

\* process_event: [panicked, action (an Option<Action>), calls].
process_event(self, ev, node) ==
    IF ev.event.logs = << >>
    THEN [panicked |-> FALSE, action |-> NoValue, calls |-> << >>]
    ELSE process_logs(self, ev.event, node)

\* A process_event that records the pool of the event it was given.
process_event_self_recording_pool(self, ev, node) ==
    IF ev.event.logs = << >> THEN self
    ELSE [self EXCEPT !.pool_map =
             insert(@, ev.event.logs[1],
                    [v2_pool |-> "v2_seen", is_weth_token0 |-> TRUE])]

\* The strategy's fields after process_event(&mut self, ..): the body reads
\* self.pool_map (through generate_bundles) and assigns to no field, on every
\* path, the panicking ones included.
process_event_self(self, ev, node) == self

\* The strategy's fields after generate_bundles(&self, ..): the receiver is a
\* shared reference and pool_map has no interior mutability.
generate_bundles_self(self, v3_address, tx_hash, node) == self

(***************************************************************************)
(* The relay registry and the executors built from it                      *)
(* (mev_share_executor.rs, client.rs)                                      *)
(***************************************************************************)
endpoints ==
    <<<<"flashbots", "https://relay.flashbots.net/">>,
      <<"builder0x69", "http://builder0x69.io/">>,
      <<"edennetwork", "https://api.edennetwork.io/v1/bundle">>,
      <<"beaverbuild", "https://rpc.beaverbuild.org/">>,
      <<"lightspeedbuilder", "https://rpc.lightspeedbuilder.info/">>,
      <<"eth-builder", "https://eth-builder.com/">>,
      <<"ultrasound", "https://relay.ultrasound.money/">>,
      <<"agnostic-relay", "https://agnostic-relay.net/">>,
      <<"relayoor-wtf", "https://relayooor.wtf/">>,
      <<"rsync-builder", "https://rsync-builder.xyz/">>>>

\* Client::from_url: the http client signs with the signer it is given and
\* is bound to the url.
from_url(signer, url, relay_name) ==
    [signer |-> signer, url |-> url, client_name |-> relay_name]

\* Client::new: the url the client is bound to depends on the chain.
Client_new(signer, chain, url, relay_name) ==
    IF chain = "Mainnet" THEN Returned(from_url(signer, url, relay_name))
    ELSE IF chain = "Goerli"
    THEN Returned(from_url(signer, "https://relay-goerli.flashbots.net:443",
                           relay_name))
    ELSE Panicked

\* MevshareExecutor::new
MevshareExecutor_new(signer, chain, url, relay_name) ==
    [matchmaker_client |-> Client_new(signer, chain, url, relay_name).value]

\* get_all_mev_share_endpoints: one executor per registry entry, in order,
\* each with a clone of the signer.
get_all_mev_share_endpoints(tx_signer, chain) ==
    [i \in 1..Len(endpoints) |->
        MevshareExecutor_new(tx_signer, chain, endpoints[i][2], endpoints[i][1])]

\* ExecutorMap::new(executor, filter)
ExecutorMap_new(executor, filter) == [executor |-> executor, filter |-> filter]

(***************************************************************************)
(* Inputs                                                                  *)
(***************************************************************************)
Rungs == 1..Len(sizes)

\* The rungs that fail to fill (F) and to sign (S) during one call: at most
\* MaxFailedRungs rungs fail, or at most MaxFailedRungs rungs fill.
FailurePairs ==
    LET Few == {S \in SUBSET Rungs : Cardinality(S) <= MaxFailedRungs}
        Most == {Rungs \ S : S \in Few}
    IN  {p \in Few \X Few : p[1] \cap p[2] = {}
                            /\ Cardinality(p[1] \cup p[2]) <= MaxFailedRungs}
        \cup {p \in Most \X Few : p[1] \cap p[2] = {}}

\* The failures the other block numbers and gas prices come with: none, the
\* first signature, every fill.
EdgePairs == {<<{}, {}>>, <<{}, {1}>>, <<Rungs, {}>>}

\* Block numbers the node reports: a current one and the ones at the top of
\* the 64-bit range.
BlockNumbers ==
    {U64From(17000000),
     <<LimbBase - 1, LimbBase - 1, LimbBase - 1, LimbBase - 32>>,
     <<LimbBase - 1, LimbBase - 1, LimbBase - 1, LimbBase - 31>>,
     <<LimbBase - 1, LimbBase - 1, LimbBase - 1, LimbBase - 2>>,
     U64Max}

\* A failed node call; the value is a placeholder of the call's type.
RpcErr(placeholder) == [ok |-> FALSE, value |-> placeholder]

NodeAnswer(gas_price, block_number, fill_err, sign_err) ==
    [gas_price |-> gas_price, block_number |-> block_number,
     fill_err |-> fill_err, sign_err |-> sign_err, nonce |-> 0]

\* What the node and the signer answer during one process_event call.
Nodes ==
    {NodeAnswer(RpcErr(0), RpcErr(U64From(0)), {}, {}), NodeAnswer(Ok(7), RpcErr(U64From(0)), {}, {})}
    \cup {NodeAnswer(Ok(7), Ok(U64From(17000000)), p[1], p[2]) : p \in FailurePairs}
    \cup {NodeAnswer(Ok(7), Ok(b), p[1], p[2]) : b \in BlockNumbers, p \in EdgePairs}
    \cup {NodeAnswer(Ok(9), Ok(U64From(17000000)), p[1], p[2]) : p \in EdgePairs}

\* The answers used when the whole engine runs.
SysNodes ==
    {NodeAnswer(RpcErr(0), RpcErr(U64From(0)), {}, {}),
     NodeAnswer(Ok(7), RpcErr(U64From(0)), {}, {}),
     NodeAnswer(Ok(7), Ok(U64From(17000000)), {}, {}),
     NodeAnswer(Ok(7), Ok(U64From(17000000)), Rungs, {})}

Addresses == {"pool_a", "pool_b"}

LogLists ==
    {<< >>, <<"pool_a">>, <<"pool_b">>, <<"pool_a", "pool_b">>, <<"pool_b", "pool_a">>}

\* The order-flow disclosures a collector may yield.
NativeEvents == {[hash |-> "0xha5h", logs |-> l] : l \in LogLists}

SysNativeEvents ==
    {[hash |-> "0xha5h", logs |-> l] : l \in {<< >>, <<"pool_a">>}}

CsvRow(parsed, v3_pool, weth_token0) ==
    [parsed |-> parsed, v3_pool |-> v3_pool, v2_pool |-> "v2_of_" \o v3_pool,
     weth_token0 |-> weth_token0]

CsvRows ==
    {CsvRow(TRUE, a, w) : a \in Addresses, w \in BOOLEAN}
    \cup {CsvRow(FALSE, "?", FALSE)}

\* The pool csv file: it cannot be opened, or it holds up to MaxCsvRecords rows.
Csvs ==
    {[open |-> "Err", records |-> << >>]}
    \cup {[open |-> "Ok", records |-> r] :
            r \in UNION {[1..n -> CsvRows] : n \in 0..MaxCsvRecords}}

SysCsvs ==
    {[open |-> "Err", records |-> << >>],
     [open |-> "Ok", records |-> << >>],
     [open |-> "Ok", records |-> <<CsvRow(TRUE, "pool_a", TRUE)>>]}

(***************************************************************************)
(* State                                                                   *)
(***************************************************************************)
VARIABLES
    mainpc,     \* where main stands
    strong,     \* the strong count of main's Arc<Engine>
    reg,        \* the state of each executor-registration task main spawns
    engine,     \* the engine's registered collectors, strategies, executors
    run_result, \* what run() returned: "NotCalled" before the call
    strategy,   \* the strategy objects, by position in engine.strategies
    sync_calls, \* how often sync_state was invoked on each strategy, its results
    status,     \* the state of each task the engine spawned
    joined,     \* the task outcomes main has taken from the join set
    published,  \* Event bus: the events each collector published, in order
    cursor,     \* Event bus: how many events of each collector a strategy took
    processed,  \* the process_event calls of each strategy, in order
    actions,    \* Action bus: the actions each strategy published, in order
    xcursor,    \* Action bus: how many actions of each strategy an executor took
    xlog,       \* the actions each executor adapter saw and what it did
    st_pc,      \* StrategySpec: one strategy object driven on its own
    st_self,
    st_in,
    st_out,
    ex_pc,          \* ExecutorSpec: one executor's execute call, step by step
    ex_self,        \* the executor
    ex_action,      \* the payload of the call
    ex_stream,      \* how many bundles the stream has yielded so far
    ex_in_progress, \* the send_bundle futures in the buffer, by bundle index
    ex_requests,    \* the requests made on the relay, in order
    ex_logged,      \* the answers logged so far
    ex_result,      \* what execute returned
    ex_env,         \* the answers of the signer, the node and the relay
    fn_call,      \* FunctionSpec: the function applied and its input
    fn_out        \* its result

vars ==
    <<mainpc, strong, reg, engine, run_result, strategy, sync_calls, status, joined,
      published, cursor, processed, actions, xcursor, xlog,
      st_pc, st_self, st_in, st_out,
      ex_pc, ex_self, ex_action, ex_stream, ex_in_progress, ex_requests,
      ex_logged, ex_result, ex_env, fn_call, fn_out>>

mainVars == <<mainpc, strong, reg, engine, run_result>>

engineVars ==
    <<strategy, sync_calls, status, joined, published, cursor, processed, actions,
      xcursor, xlog>>

stVars == <<st_pc, st_self, st_in, st_out>>

exVars ==
    <<ex_pc, ex_self, ex_action, ex_stream, ex_in_progress, ex_requests,
      ex_logged, ex_result, ex_env>>

fnVars == <<fn_call, fn_out>>

\* The variables of the specifications that drive one object on its own.
unitVars == <<stVars, exVars, fnVars>>

Relays == 1..Len(endpoints)

EmptyEngine == [collectors |-> << >>, strategies |-> << >>, executors |-> << >>]

EngineIdle ==
    /\ engine = EmptyEngine
    /\ run_result = "NotCalled"
    /\ strategy = << >>
    /\ sync_calls = << >>
    /\ status = [t \in {} |-> None]
    /\ joined = {}
    /\ published = << >>
    /\ cursor = << >>
    /\ processed = << >>
    /\ actions = << >>
    /\ xcursor = << >>
    /\ xlog = << >>

StrategyIdle ==
    /\ st_pc = "idle"
    /\ st_self = MevShareUniArb_new
    /\ st_in = None
    /\ st_out = None

ExecutorIdle ==
    /\ ex_pc = "idle"
    /\ ex_self = None
    /\ ex_action = << >>
    /\ ex_stream = 0
    /\ ex_in_progress = << >>
    /\ ex_requests = << >>
    /\ ex_logged = {}
    /\ ex_result = "Pending"
    /\ ex_env = None

FnIdle ==
    /\ fn_call = [fn |-> "none", arg |-> None]
    /\ fn_out = None

(***************************************************************************)
(* Arc<Engine> (std::sync::Arc), as main uses it                           *)
(***************************************************************************)
\* Arc::get_mut: Some only for the only handle.
get_mut(count) == IF count = 1 THEN "Some" ELSE None

\* into_inner as if it gave the value to any handle, not only to the last.
into_inner_of_any_handle(count) == [value |-> "Some", count |-> count - 1]

\* Arc::into_inner: the handle is given up; the value comes out only when it
\* was the last one.
into_inner(count) == [value |-> IF count = 1 THEN "Some" ELSE None, count |-> count - 1]

(***************************************************************************)
(* Engine registration.  add_collector, add_strategy and add_executor push *)
(* onto the engine's ordered collections.                                  *)
(***************************************************************************)
add_collector(e, collector) == [e EXCEPT !.collectors = Append(@, collector)]

add_strategy(e, s) == [e EXCEPT !.strategies = Append(@, s)]

add_executor(e, executor) == [e EXCEPT !.executors = Append(@, executor)]

(***************************************************************************)
(* main (main.rs)                                                          *)
(***************************************************************************)
Init ==
    /\ mainpc = "add_collector"
    /\ strong = 1
    /\ reg = [i \in Relays |-> "unspawned"]
    /\ EngineIdle
    /\ StrategyIdle
    /\ ExecutorIdle
    /\ FnIdle

\* Lines 68-75: register the collector through the only handle.
MainAddCollector ==
    /\ mainpc = "add_collector"
    /\ IF get_mut(strong) = None
       THEN mainpc' = "panicked" /\ engine' = engine
       ELSE /\ engine' = add_collector(engine, [collector |-> "MevShareCollector",
                                                 lift |-> "MEVShareEvent"])
            /\ mainpc' = "add_strategy"
    /\ UNCHANGED <<strong, reg, run_result, engineVars, unitVars>>

\* Lines 78-86: build the strategy and register it through the only handle.
MainAddStrategy ==
    /\ mainpc = "add_strategy"
    /\ IF get_mut(strong) = None
       THEN mainpc' = "panicked" /\ engine' = engine
       ELSE /\ engine' = add_strategy(engine, MevShareUniArb_new)
            /\ mainpc' = "spawn"
    /\ UNCHANGED <<strong, reg, run_result, engineVars, unitVars>>

\* Lines 91-95, one turn of the loop: clone the handle for the next relay and
\* spawn its registration task.  After the last relay main goes on to line 118.
MainSpawn ==
    /\ mainpc = "spawn"
    /\ \E i \in Relays :
        /\ reg[i] = "unspawned"
        /\ \A j \in Relays : j < i => reg[j] # "unspawned"
        /\ reg' = [reg EXCEPT ![i] = "spawned"]
        /\ strong' = strong + 1
        /\ mainpc' = IF i = Len(endpoints) THEN "into_inner" ELSE "spawn"
    /\ UNCHANGED <<engine, run_result, engineVars, unitVars>>

\* Lines 97-106, the body of registration task i: clone the handle again, take
\* the executor out of its Arc, wrap it, and ask for exclusive access to the
\* engine.  The task then holds two handles (the captured one and its clone).
RegTaskBody(i) ==
    /\ reg[i] = "spawned"
    /\ LET count == strong + 1
           relay == get_all_mev_share_endpoints("fb_signer", "Mainnet")[i]
           mev_share_executor == ExecutorMap_new(relay, "SubmitBundles")
       IN  /\ strong' = count
           /\ IF get_mut(count) = None
              THEN /\ reg' = [reg EXCEPT ![i] = "unwinding"]
                   /\ engine' = engine
              ELSE /\ reg' = [reg EXCEPT ![i] = "registered"]
                   /\ engine' = add_executor(engine, mev_share_executor)
    /\ UNCHANGED <<mainpc, run_result, engineVars, unitVars>>

\* The end of registration task i, by return or by unwinding: both of its
\* handles are dropped.
RegTaskDrop(i) ==
    /\ reg[i] \in {"unwinding", "registered"}
    /\ reg' = [reg EXCEPT ![i] = IF @ = "unwinding" THEN "panicked" ELSE "finished"]
    /\ strong' = strong - 2
    /\ UNCHANGED <<mainpc, engine, run_result, engineVars, unitVars>>

\* main has panicked (line 118) and the runtime shuts down: registration
\* task i, spawned and never polled, is dropped with the handle it captured,
\* and its body never runs.  The tasks are dropped one at a time while the
\* worker threads go on polling the others, so a task not dropped yet may
\* still run its body (RegTaskBody) and go on to its end (RegTaskDrop).
RuntimeShutdown(i) ==
    /\ mainpc = "panicked"
    /\ reg[i] = "spawned"
    /\ reg' = [reg EXCEPT ![i] = "dropped"]
    /\ strong' = strong - 1
    /\ UNCHANGED <<mainpc, engine, run_result, engineVars, unitVars>>

\* Line 118: Arc::into_inner(engine).unwrap()
MainIntoInner ==
    /\ mainpc = "into_inner"
    /\ LET r == into_inner(strong)
       IN  /\ strong' = r.count
           /\ mainpc' = IF r.value = None THEN "panicked" ELSE "run"
    /\ UNCHANGED <<reg, engine, run_result, engineVars, unitVars>>

(***************************************************************************)
(* Engine::run and the tasks it spawns.  The engine's source is not part   *)
(* of the sources at hand: this section follows the specification (4.1,    *)
(* 4.2, the bus invariants of section 3).  Consumers are subscribed before *)
(* any producer task starts, so that no Event or Action is lost: executor  *)
(* tasks first, then each strategy (sync_state, then its task), then the   *)
(* collector tasks.  The engine main hands to run holds no executor        *)
(* (NoExecutorRegistered), so run spawns no executor task and no step of   *)
(* one is part of the model: xcursor and xlog stay empty.                  *)
(***************************************************************************)
Task(kind, i) == <<kind, i>>

TasksOf(kind, n) == {Task(kind, i) : i \in 1..n}

\* Strategies k.. of run's strategy loop: sync_state on each, in order; the
\* first failure ends run with that error, before the strategy's task exists.
RECURSIVE run_strategies(_, _, _, _)
run_strategies(e, csvs, k, acc) ==
    IF k > Len(e.strategies) THEN acc
    ELSE
    LET r == sync_state(e.strategies[k], csvs[k])
        synced == [acc EXCEPT !.strategy[k] = r.self,
                              !.sync_calls[k] = Append(@, r.result)]
    IN  IF ~r.result.ok
        THEN [synced EXCEPT !.result = r.result]
        ELSE run_strategies(e, csvs, k + 1,
                            [synced EXCEPT !.spawned = @ \cup {Task("strategy", k)}])

\* run(self): the tasks spawned and the strategies' state when run returns.
run(e, csvs) ==
    LET executors == TasksOf("executor", Len(e.executors))
        s == run_strategies(e, csvs, 1,
                 [result |-> Ok(None),
                  strategy |-> e.strategies,
                  sync_calls |-> [k \in 1..Len(e.strategies) |-> << >>],
                  spawned |-> executors])
    IN  IF ~s.result.ok THEN s
        ELSE [s EXCEPT !.spawned = @ \cup TasksOf("collector", Len(e.collectors))]

\* engine.run().await, and what its caller does with the result: with Ok the
\* caller goes on to drain the join set, with Err it goes to on_err.
Run(on_err) ==
    \E csvs \in [1..Len(engine.strategies) -> SysCsvs] :
        LET r == run(engine, csvs)
        IN  /\ run_result' = IF r.result.ok THEN "Ok" ELSE "Err"
            /\ strategy' = r.strategy
            /\ sync_calls' = r.sync_calls
            /\ status' = [t \in r.spawned |->
                            IF t[1] = "collector" THEN "spawned" ELSE "running"]
            /\ published' = [c \in 1..Len(engine.collectors) |-> << >>]
            /\ cursor' = [k \in 1..Len(engine.strategies) |->
                            [c \in 1..Len(engine.collectors) |-> 0]]
            /\ processed' = [k \in 1..Len(engine.strategies) |-> << >>]
            /\ actions' = [k \in 1..Len(engine.strategies) |-> << >>]
            /\ xcursor' = [x \in 1..Len(engine.executors) |->
                             [k \in 1..Len(engine.strategies) |-> 0]]
            /\ xlog' = [x \in 1..Len(engine.executors) |-> << >>]
            /\ mainpc' = IF r.result.ok THEN "join" ELSE on_err
            /\ UNCHANGED <<strong, reg, engine, joined, unitVars>>

\* main as if it went on to the join loop whatever run returned.
MainRun_drains_on_err ==
    /\ mainpc = "run"
    /\ Run("join")

\* Lines 121-127: main starts the engine it took out of the Arc; the join set
\* is drained only if let Ok(..) matches, otherwise main returns at once.
MainRun ==
    /\ mainpc = "run"
    /\ Run("done")

\* The process is up and the join set exists (main is at line 122): task t
\* was spawned by run and is running.
Running(t) == mainpc = "join" /\ t \in DOMAIN status /\ status[t] = "running"

\* A collector task opens its source: get_event_stream succeeds, or the
\* source is unavailable and the task ends with that failure.
CollectorOpen(c) ==
    /\ mainpc = "join"
    /\ Task("collector", c) \in DOMAIN status
    /\ status[Task("collector", c)] = "spawned"
    /\ \E opened \in {"Ok", "Err"} :
        status' = [status EXCEPT ![Task("collector", c)] =
                      IF opened = "Ok" THEN "running" ELSE "failed"]
    /\ UNCHANGED <<mainVars, strategy, sync_calls, joined, published, cursor,
                   processed, actions, xcursor, xlog, unitVars>>

\* The number of events published so far, over all collectors.
PublishedCount ==
    LET RECURSIVE SumLen(_, _)
        SumLen(seqs, i) ==
            IF i > Len(seqs) THEN 0 ELSE Len(seqs[i]) + SumLen(seqs, i + 1)
    IN  SumLen(published, 1)

\* CollectorMap: the next native event, lifted by Event::MEVShareEvent, goes
\* onto the Event bus.
CollectorPublish(c) ==
    /\ Running(Task("collector", c))
    /\ PublishedCount < MaxEvents
    /\ \E native \in SysNativeEvents :
        published' = [published EXCEPT ![c] = Append(@, MEVShareEvent(native))]
    /\ UNCHANGED <<mainVars, strategy, sync_calls, status, joined, cursor,
                   processed, actions, xcursor, xlog, unitVars>>

\* The source sequence ends: the collector task ends.
CollectorEnd(c) ==
    /\ Running(Task("collector", c))
    /\ status' = [status EXCEPT ![Task("collector", c)] = "ended"]
    /\ UNCHANGED <<mainVars, strategy, sync_calls, joined, published, cursor,
                   processed, actions, xcursor, xlog, unitVars>>

\* During a process_event call that made these calls, the node failed to
\* report its gas price or its block number.
NodeCallFailed(calls, node) ==
    \/ calls # << >> /\ ~node.gas_price.ok
    \/ Len(calls) >= 2 /\ ~node.block_number.ok

\* A strategy task whose panic makes the engine cancel the tasks that are
\* still running.
StrategyStep_cancelling_siblings(k, c) ==
    /\ Running(Task("strategy", k))
    /\ cursor[k][c] < Len(published[c])
    /\ \E node \in SysNodes :
        LET n == cursor[k][c] + 1
            r == process_event(strategy[k], published[c][n], node)
        IN  /\ cursor' = [cursor EXCEPT ![k][c] = n]
            /\ processed' = [processed EXCEPT ![k] =
                    Append(@, [src |-> c, seq |-> n, panicked |-> r.panicked,
                               emitted |-> r.action.some,
                               node_err |-> NodeCallFailed(r.calls, node)])]
            /\ actions' = IF r.action.some
                          THEN [actions EXCEPT ![k] = Append(@, r.action.value)]
                          ELSE actions
            /\ status' = IF r.panicked
                         THEN [t \in DOMAIN status |->
                                 IF status[t] \in {"ended", "failed"}
                                 THEN status[t] ELSE "failed"]
                         ELSE status
    /\ UNCHANGED <<mainVars, strategy, sync_calls, joined, published, xcursor,
                   xlog, unitVars>>

\* One turn of strategy task k: take the next event of collector c from the
\* bus, call process_event, publish the Action if there is one.  A panic of
\* process_event ends the task.
StrategyStep(k, c) ==
    /\ Running(Task("strategy", k))
    /\ cursor[k][c] < Len(published[c])
    /\ \E node \in SysNodes :
        LET n == cursor[k][c] + 1
            r == process_event(strategy[k], published[c][n], node)
        IN  /\ cursor' = [cursor EXCEPT ![k][c] = n]
            /\ processed' = [processed EXCEPT ![k] =
                    Append(@, [src |-> c, seq |-> n, panicked |-> r.panicked,
                               emitted |-> r.action.some,
                               node_err |-> NodeCallFailed(r.calls, node)])]
            /\ actions' = IF r.action.some
                          THEN [actions EXCEPT ![k] = Append(@, r.action.value)]
                          ELSE actions
            /\ status' = IF r.panicked
                         THEN [status EXCEPT ![Task("strategy", k)] = "failed"]
                         ELSE status
    /\ UNCHANGED <<mainVars, strategy, sync_calls, joined, published, xcursor,
                   xlog, unitVars>>

Finished(t) == t \in DOMAIN status /\ status[t] \in {"ended", "failed"}

Joined == {j.task : j \in joined}

\* Lines 122-124: join_next yields the outcome of a task that has finished;
\* main logs it and goes on waiting for the others.
MainJoinNext ==
    /\ mainpc = "join"
    /\ \E t \in DOMAIN status :
        /\ Finished(t)
        /\ t \notin Joined
        /\ joined' = joined \cup {[task |-> t, res |-> status[t]]}
    /\ UNCHANGED <<mainVars, strategy, sync_calls, status, published, cursor,
                   processed, actions, xcursor, xlog, unitVars>>

\* Lines 122, 127: join_next yields None once every task has been joined, and
\* main returns.
MainReturn ==
    /\ mainpc = "join"
    /\ DOMAIN status \subseteq Joined
    /\ mainpc' = "done"
    /\ UNCHANGED <<strong, reg, engine, run_result, engineVars, unitVars>>

Next ==
    \/ MainAddCollector
    \/ MainAddStrategy
    \/ MainSpawn
    \/ \E i \in Relays : RegTaskBody(i)
    \/ \E i \in Relays : RegTaskDrop(i)
    \/ \E i \in Relays : RuntimeShutdown(i)
    \/ MainIntoInner
    \/ MainRun
    \/ \E c \in 1..Len(engine.collectors) : CollectorOpen(c)
    \/ \E c \in 1..Len(engine.collectors) : CollectorPublish(c)
    \/ \E c \in 1..Len(engine.collectors) : CollectorEnd(c)
    \/ \E k \in 1..Len(engine.strategies), c \in 1..Len(engine.collectors) :
          StrategyStep(k, c)
    \/ MainJoinNext
    \/ MainReturn

Spec == Init /\ [][Next]_vars

(***************************************************************************)
(* StrategySpec: one MevShareUniArb object on its own.  sync_state loads   *)
(* its table from any csv file; then process_event or generate_bundles is  *)
(* called once, on any event, and polled until it ends: the call is        *)
(* suspended at each call to the node, whose answers are any.              *)
(***************************************************************************)
StrategyInit ==
    /\ mainpc = "none"
    /\ strong = 0
    /\ reg = [i \in Relays |-> "unspawned"]
    /\ EngineIdle
    /\ st_pc = "new"
    /\ st_self = MevShareUniArb_new
    /\ st_in = None
    /\ st_out = None
    /\ ExecutorIdle
    /\ FnIdle

StSyncState ==
    /\ st_pc = "new"
    /\ \E csv \in Csvs :
        LET r == sync_state(st_self, csv)
        IN  /\ st_self' = r.self
            /\ st_out' = r.result
            /\ st_in' = [call |-> "sync_state", opened |-> csv.open]
    /\ st_pc' = "synced"
    /\ UNCHANGED <<mainVars, engineVars, exVars, fnVars>>

\* A call suspended at its k-th await: the calls made to the node so far,
\* the last of them without its answer yet, and what the call goes on to
\* once the node has given the answers of st_in.node.
Suspended(r, k) == [awaiting |-> k, calls |-> SubSeq(r.calls, 1, k), then |-> r]

\* process_event is called and polled for the first time: it runs up to its
\* first await (get_gas_price, strategy.rs:150), or to its end on the paths
\* that have none (no log, or a first log of no pool of the table).
StProcessEvent ==
    /\ st_pc = "synced"
    /\ \E native \in NativeEvents, node \in Nodes :
        LET r == process_event(st_self, MEVShareEvent(native), node)
        IN  /\ st_in' = [call |-> "process_event", event |-> MEVShareEvent(native),
                         node |-> node]
            /\ IF r.calls = << >>
               THEN /\ st_pc' = "done"
                    /\ st_out' = r
                    /\ st_self' = process_event_self(st_self, MEVShareEvent(native),
                                                     node)
               ELSE /\ st_pc' = "awaiting"
                    /\ st_out' = Suspended(r, 1)
                    /\ st_self' = st_self
    /\ UNCHANGED <<mainVars, engineVars, exVars, fnVars>>

\* generate_bundles is called and polled for the first time: it runs up to
\* its first await (get_gas_price, strategy.rs:150), or panics before it
\* when the pool is not in the table (strategy.rs:127).
StGenerateBundles ==
    /\ st_pc = "synced"
    /\ \E v3_address \in Addresses, node \in Nodes :
        LET r == generate_bundles(st_self, v3_address, "0xha5h", node)
        IN  /\ st_in' = [call |-> "generate_bundles", v3_address |-> v3_address,
                         tx_hash |-> "0xha5h", node |-> node]
            /\ IF r.calls = << >>
               THEN /\ st_pc' = "done"
                    /\ st_out' = r
                    /\ st_self' = generate_bundles_self(st_self, v3_address,
                                                        "0xha5h", node)
               ELSE /\ st_pc' = "awaiting"
                    /\ st_out' = Suspended(r, 1)
                    /\ st_self' = st_self
    /\ UNCHANGED <<mainVars, engineVars, exVars, fnVars>>

\* The node has answered the call awaited (get_gas_price, get_block_number,
\* fill_transaction or sign_transaction: strategy.rs:150, 151, 201, 216)
\* and the task is polled again: the call runs up to its next await, where
\* it is suspended again, or to its end, by return or by panic.
StPoll ==
    /\ st_pc = "awaiting"
    /\ IF st_out.awaiting < Len(st_out.then.calls)
       THEN /\ st_pc' = "awaiting"
            /\ st_out' = Suspended(st_out.then, st_out.awaiting + 1)
            /\ st_self' = st_self
       ELSE /\ st_pc' = "done"
            /\ st_out' = st_out.then
            /\ st_self' =
                 IF st_in.call = "process_event"
                 THEN process_event_self(st_self, st_in.event, st_in.node)
                 ELSE generate_bundles_self(st_self, st_in.v3_address,
                                            st_in.tx_hash, st_in.node)
    /\ UNCHANGED <<mainVars, engineVars, exVars, fnVars, st_in>>

StrategyNext ==
    \/ StSyncState
    \/ StProcessEvent
    \/ StGenerateBundles
    \/ StPoll

StrategySpec == StrategyInit /\ [][StrategyNext]_vars

(***************************************************************************)
(* ExecutorSpec: one execute call of one relay executor, step by step.     *)
(*                                                                         *)
(* MevshareExecutor::execute maps the payload to a stream of send_bundle   *)
(* futures, buffers it with buffer_unordered(BufferSize) and drives it     *)
(* with for_each.  A poll of the buffered stream first takes futures from  *)
(* the stream while the buffer holds fewer than BufferSize, polls them     *)
(* (which makes their requests), and yields one finished future if there   *)
(* is one.  The relay's answers arrive in any order.                       *)
(***************************************************************************)
\* No program is running and no object is under test yet.
UnitInit ==
    /\ mainpc = "none"
    /\ strong = 0
    /\ reg = [i \in Relays |-> "unspawned"]
    /\ EngineIdle
    /\ StrategyIdle
    /\ ExecutorIdle
    /\ FnIdle

Min(a, b) == IF a <= b THEN a ELSE b

\* The argument of buffer_unordered in MevshareExecutor::execute.
BufferSize == 5

\* A buffer that takes every remaining future from the stream at once.
spawn_count_unbounded(len, remaining) == remaining

\* buffer_unordered(5): the number of futures one poll takes from the stream
\* when the buffer holds len futures and the stream has `remaining` left.
spawn_count(len, remaining) == Min(BufferSize - len, remaining)

\* Client::send_bundle: one request on the client's url, no retry.
send_bundle(client, bundle) ==
    [url |-> client.url, method |-> "mev_sendBundle", params |-> <<bundle>>]

\* The payloads: up to MaxBundles different bundles, or one bundle twice.
Payloads ==
    {[i \in 1..n |-> [bundle |-> i]] : n \in 0..MaxBundles}
    \cup {<<[bundle |-> 1], [bundle |-> 1]>>}

\* The futures of the buffer that have their answer and were not yet yielded.
Completed == {i \in DOMAIN ex_in_progress : ex_in_progress[i] # "pending"}

\* The futures of the buffer whose request is still without an answer.
InFlight == {i \in DOMAIN ex_in_progress : ex_in_progress[i] = "pending"}

\* The buffer after one poll's filling loop: the futures kept, and the next
\* spawn_count futures of the stream, each polled once.
Refill(kept) ==
    LET k == spawn_count(Cardinality(DOMAIN kept), Len(ex_action) - ex_stream)
    IN  [i \in DOMAIN kept \cup (ex_stream + 1)..(ex_stream + k) |->
            IF i \in DOMAIN kept THEN kept[i] ELSE "pending"]

\* execute is called: the stream is built and for_each polls it for the first
\* time.  An empty payload ends the stream at once and execute returns Ok.
ExecuteCall ==
    /\ ex_pc = "idle"
    /\ \E x \in {1, Len(endpoints)}, payload \in Payloads :
        LET self == get_all_mev_share_endpoints("fb_signer", "Mainnet")[x]
            k == spawn_count(0, Len(payload))
        IN  /\ ex_self' = self
            /\ ex_action' = payload
            /\ ex_stream' = k
            /\ ex_in_progress' = [i \in 1..k |-> "pending"]
            /\ ex_requests' =
                 [i \in 1..k |-> send_bundle(self.matchmaker_client, payload[i])]
            /\ ex_pc' = IF k = 0 THEN "done" ELSE "sending"
            /\ ex_result' = IF k = 0 THEN "Ok" ELSE "Pending"
    /\ ex_logged' = {}
    /\ ex_env' = None
    /\ UNCHANGED <<mainVars, engineVars, stVars, fnVars>>

\* The relay answers request i, or the request fails.
RelayAnswers(i, answer) ==
    /\ ex_pc = "sending"
    /\ i \in InFlight
    /\ ex_in_progress' = [ex_in_progress EXCEPT ![i] = answer]
    /\ UNCHANGED <<mainVars, engineVars, stVars, fnVars, ex_pc, ex_self,
                   ex_action, ex_stream, ex_requests, ex_logged, ex_result,
                   ex_env>>

\* for_each as if it were try_for_each: the first Err ends the call.
PollNext_short_circuit(i) ==
    /\ ex_pc = "sending"
    /\ i \in Completed
    /\ ex_logged' = ex_logged \cup {[bundle |-> i, answer |-> ex_in_progress[i]]}
    /\ LET kept == [j \in DOMAIN ex_in_progress \ {i} |-> ex_in_progress[j]]
           stop == ex_in_progress[i] = "Err"
           next == IF stop THEN kept ELSE Refill(kept)
           made == (DOMAIN next) \ (DOMAIN kept)
       IN  /\ ex_in_progress' = next
           /\ ex_stream' = ex_stream + Cardinality(made)
           /\ ex_requests' =
                ex_requests \o
                [j \in 1..Cardinality(made) |->
                    send_bundle(ex_self.matchmaker_client,
                                ex_action[ex_stream + j])]
           /\ ex_pc' = IF stop \/ DOMAIN next = {} THEN "done" ELSE "sending"
           /\ ex_result' = IF stop THEN "Err"
                           ELSE IF DOMAIN next = {} THEN "Ok" ELSE "Pending"
    /\ UNCHANGED <<mainVars, engineVars, stVars, fnVars, ex_self, ex_action,
                   ex_env>>

\* for_each as if the call returned as soon as the stream has handed out its
\* last bundle, with submissions still in the buffer.
PollNext_returning_early(i) ==
    /\ ex_pc = "sending"
    /\ i \in Completed
    /\ ex_logged' = ex_logged \cup {[bundle |-> i, answer |-> ex_in_progress[i]]}
    /\ LET kept == [j \in DOMAIN ex_in_progress \ {i} |-> ex_in_progress[j]]
           next == Refill(kept)
           made == (DOMAIN next) \ (DOMAIN kept)
           over == ex_stream + Cardinality(made) = Len(ex_action)
       IN  /\ ex_in_progress' = next
           /\ ex_stream' = ex_stream + Cardinality(made)
           /\ ex_requests' =
                ex_requests \o
                [j \in 1..Cardinality(made) |->
                    send_bundle(ex_self.matchmaker_client,
                                ex_action[ex_stream + j])]
           /\ ex_pc' = IF over THEN "done" ELSE "sending"
           /\ ex_result' = IF over THEN "Ok" ELSE "Pending"
    /\ UNCHANGED <<mainVars, engineVars, stVars, fnVars, ex_self, ex_action,
                   ex_env>>

\* The buffered stream yields finished future i: for_each logs its answer
\* and polls again, which refills the buffer from the stream; when the buffer
\* is empty and the stream is exhausted, execute returns Ok.
PollNext(i) ==
    /\ ex_pc = "sending"
    /\ i \in Completed
    /\ ex_logged' = ex_logged \cup {[bundle |-> i, answer |-> ex_in_progress[i]]}
    /\ LET kept == [j \in DOMAIN ex_in_progress \ {i} |-> ex_in_progress[j]]
           next == Refill(kept)
           made == (DOMAIN next) \ (DOMAIN kept)
       IN  /\ ex_in_progress' = next
           /\ ex_stream' = ex_stream + Cardinality(made)
           /\ ex_requests' =
                ex_requests \o
                [j \in 1..Cardinality(made) |->
                    send_bundle(ex_self.matchmaker_client,
                                ex_action[ex_stream + j])]
           /\ ex_pc' = IF DOMAIN next = {} THEN "done" ELSE "sending"
           /\ ex_result' = IF DOMAIN next = {} THEN "Ok" ELSE "Pending"
    /\ UNCHANGED <<mainVars, engineVars, stVars, fnVars, ex_self, ex_action,
                   ex_env>>

\* Url::parse on an endpoint of the registry: each is an absolute url with a
\* path, which parses to the url of the same serialization.
Url_parse(endpoint) == Ok([serialization |-> endpoint])

\* FlashbotsExecutor::new
FlashbotsExecutor_new(tx_signer, relay_signer, relay_url, relay_name) ==
    [fb_client |-> [relay_url |-> relay_url, relay_signer |-> relay_signer],
     tx_signer |-> tx_signer,
     client_name |-> relay_name]

\* get_all_relay_endpoints: one executor per registry entry, in order, each
\* with clones of the two signers.
get_all_relay_endpoints(tx_signer, relay_signer) ==
    [i \in 1..Len(endpoints) |->
        FlashbotsExecutor_new(tx_signer, relay_signer,
                              Url_parse(endpoints[i][2]).value, endpoints[i][1])]

\* The first transaction of the payload whose signing fails, 0 if none does.
FirstSignErr(n, sign_err) ==
    IF sign_err \cap (1..n) = {} THEN 0
    ELSE CHOOSE i \in sign_err \cap (1..n) : \A j \in sign_err \cap (1..n) : i <= j

\* FlashbotsExecutor::execute as if a failed simulation ended the call: the
\* bundle is not sent after it.
fb_execute_stopping_on_failed_simulation(self, action, env) ==
    LET failed == FirstSignErr(Len(action), env.sign_err)
        signed == IF failed = 0 THEN Len(action) ELSE failed
        signing == [i \in 1..signed |->
                      [url |-> "tx_signer", method |-> "sign_transaction",
                       params |-> <<action[i]>>]]
        reading == <<[url |-> "node", method |-> "eth_blockNumber",
                      params |-> << >>]>>
        block == add(env.block_number.value, U64From(1))
        bundle == [transactions |-> [i \in 1..Len(action) |-> [rlp_signed |-> action[i]]],
                   block |-> block.value,
                   simulation_block |-> env.block_number.value,
                   simulation_timestamp |-> 0]
        simulating == <<[url |-> self.fb_client.relay_url.serialization,
                         method |-> "eth_callBundle", params |-> <<bundle>>]>>
        sending == <<[url |-> self.fb_client.relay_url.serialization,
                      method |-> "eth_sendBundle", params |-> <<bundle>>]>>
    IN  IF failed # 0 THEN [result |-> "Err", calls |-> signing]
        ELSE IF ~env.block_number.ok
        THEN [result |-> "Err", calls |-> signing \o reading]
        ELSE IF block.panicked
        THEN [result |-> "Panicked", calls |-> signing \o reading]
        ELSE IF env.simulate = "Err"
        THEN [result |-> "Ok", calls |-> signing \o reading \o simulating]
        ELSE [result |-> "Ok",
              calls |-> signing \o reading \o simulating \o sending]

\* FlashbotsExecutor::execute as if a failed signing only ended the signing
\* loop: the transactions signed so far are simulated and sent.
fb_execute_sending_signed_so_far(self, action, env) ==
    LET failed == FirstSignErr(Len(action), env.sign_err)
        signed == IF failed = 0 THEN Len(action) ELSE failed
        signing == [i \in 1..signed |->
                      [url |-> "tx_signer", method |-> "sign_transaction",
                       params |-> <<action[i]>>]]
        reading == <<[url |-> "node", method |-> "eth_blockNumber",
                      params |-> << >>]>>
        block == add(env.block_number.value, U64From(1))
        kept == IF failed = 0 THEN Len(action) ELSE failed - 1
        bundle == [transactions |-> [i \in 1..kept |-> [rlp_signed |-> action[i]]],
                   block |-> block.value,
                   simulation_block |-> env.block_number.value,
                   simulation_timestamp |-> 0]
        relaying == <<[url |-> self.fb_client.relay_url.serialization,
                       method |-> "eth_callBundle", params |-> <<bundle>>],
                      [url |-> self.fb_client.relay_url.serialization,
                       method |-> "eth_sendBundle", params |-> <<bundle>>]>>
    IN  IF ~env.block_number.ok
        THEN [result |-> "Err", calls |-> signing \o reading]
        ELSE IF block.panicked
        THEN [result |-> "Panicked", calls |-> signing \o reading]
        ELSE [result |-> IF failed = 0 THEN "Ok" ELSE "Err",
              calls |-> signing \o reading \o relaying]

\* FlashbotsExecutor::execute: sign every transaction (`?`), read the block
\* number (`?`), simulate and send the bundle for block_number + 1, logging
\* the errors of the last two calls.
fb_execute(self, action, env) ==
    LET failed == FirstSignErr(Len(action), env.sign_err)
        signed == IF failed = 0 THEN Len(action) ELSE failed
        signing == [i \in 1..signed |->
                      [url |-> "tx_signer", method |-> "sign_transaction",
                       params |-> <<action[i]>>]]
        reading == <<[url |-> "node", method |-> "eth_blockNumber",
                      params |-> << >>]>>
        block == add(env.block_number.value, U64From(1))
        bundle == [transactions |-> [i \in 1..Len(action) |-> [rlp_signed |-> action[i]]],
                   block |-> block.value,
                   simulation_block |-> env.block_number.value,
                   simulation_timestamp |-> 0]
        relaying == <<[url |-> self.fb_client.relay_url.serialization,
                       method |-> "eth_callBundle", params |-> <<bundle>>],
                      [url |-> self.fb_client.relay_url.serialization,
                       method |-> "eth_sendBundle", params |-> <<bundle>>]>>
    IN  IF failed # 0 THEN [result |-> "Err", calls |-> signing]
        ELSE IF ~env.block_number.ok
        THEN [result |-> "Err", calls |-> signing \o reading]
        ELSE IF block.panicked
        THEN [result |-> "Panicked", calls |-> signing \o reading]
        ELSE [result |-> "Ok", calls |-> signing \o reading \o relaying]

\* The answers a FlashbotsExecutor::execute call can meet.
FbEnvs ==
    [sign_err : SUBSET (1..MaxTxs),
     block_number : {RpcErr(U64From(0)), Ok(U64From(17000000)), Ok(U64Max)},
     simulate : {"Ok", "Err"},
     send : {"Ok", "Err"}]

\* FlashbotsExecutor::execute is called and polled for the first time: it
\* runs up to its first await, the signing of the first transaction
\* (flashbots_executor.rs:55) or, for an empty payload, get_block_number (60).
FbExecute ==
    /\ ex_pc = "idle"
    /\ \E x \in {1, Len(endpoints)}, n \in 0..MaxTxs, env \in FbEnvs :
        LET self == get_all_relay_endpoints("tx_signer", "relay_signer")[x]
            action == [i \in 1..n |-> [tx |-> i]]
            r == fb_execute(self, action, env)
        IN  /\ env.sign_err \subseteq 1..n
            /\ ex_self' = self
            /\ ex_action' = action
            /\ ex_env' = env
            /\ ex_requests' = SubSeq(r.calls, 1, 1)
    /\ ex_pc' = "awaiting"
    /\ ex_result' = "Pending"
    /\ UNCHANGED <<mainVars, engineVars, stVars, fnVars, ex_stream,
                   ex_in_progress, ex_logged>>

\* The call awaited (sign_transaction, get_block_number, simulate_bundle or
\* send_bundle: flashbots_executor.rs:55, 60, 66, 73) has its answer and the
\* task is polled again: execute runs up to its next await, or to its end.
FbPoll ==
    /\ ex_pc = "awaiting"
    /\ LET r == fb_execute(ex_self, ex_action, ex_env)
           made == Len(ex_requests)
       IN  IF made < Len(r.calls)
           THEN /\ ex_requests' = SubSeq(r.calls, 1, made + 1)
                /\ ex_pc' = "awaiting"
                /\ ex_result' = "Pending"
           ELSE /\ ex_requests' = ex_requests
                /\ ex_pc' = "done"
                /\ ex_result' = r.result
    /\ UNCHANGED <<mainVars, engineVars, stVars, fnVars, ex_self, ex_action,
                   ex_stream, ex_in_progress, ex_logged, ex_env>>

ExecutorNext ==
    \/ ExecuteCall
    \/ \E i \in 1..MaxBundles, answer \in {"Ok", "Err"} : RelayAnswers(i, answer)
    \/ \E i \in 1..MaxBundles : PollNext(i)
    \/ FbExecute
    \/ FbPoll

ExecutorSpec == UnitInit /\ [][ExecutorNext]_vars

\* MevshareExecutor::execute on payloads whose lengths lie around the size
\* of the buffer: empty, one bundle, a full buffer, one bundle more.
LivePayloadLengths == {0, 1, BufferSize, BufferSize + 1}

ExecutorLiveNext ==
    \/ ExecuteCall /\ Len(ex_action') \in LivePayloadLengths
    \/ \E i \in 1..MaxBundles, answer \in {"Ok", "Err"} :
          RelayAnswers(i, answer)
    \/ \E i \in 1..MaxBundles : PollNext(i)

\* The relay keeps answering, Ok or Err, as long as a send_bundle request is
\* without its answer, and the task that runs execute is polled again
\* whenever a submission of its buffer has finished.
ExecutorFairness ==
    /\ WF_vars(\E i \in 1..MaxBundles, answer \in {"Ok", "Err"} :
                  RelayAnswers(i, answer))
    /\ WF_vars(\E i \in 1..MaxBundles : PollNext(i))

ExecutorLiveSpec ==
    UnitInit /\ [][ExecutorLiveNext]_vars /\ ExecutorFairness

(***************************************************************************)
(* FunctionSpec: one application of one function of the wire types         *)
(* (matchmaker/src/types.rs) or of a relay-set constructor, on any input   *)
(* of the bounded input sets.                                              *)
(*                                                                         *)
(* A JSON value is a record with its kind.  A JSON string is either plain  *)
(* text, or "0x" followed by the hex digits of a quantity, or "0x"         *)
(* followed by the hex form of a byte string; a byte string (hash, address,*)
(* signed transaction) is a token.                                         *)
(***************************************************************************)
JText(s) == [kind |-> "string", enc |-> "text", text |-> s]

JQuantity(digits) == [kind |-> "string", enc |-> "quantity", digits |-> digits]

JData(bytes) == [kind |-> "string", enc |-> "data", bytes |-> bytes]

JBool(b) == [kind |-> "bool", b |-> b]

JNumber(n) == [kind |-> "number", n |-> n]

JArray(items) == [kind |-> "array", items |-> items]

JObject(fields) == [kind |-> "object", fields |-> fields]

JNull == [kind |-> "null"]

\* An object without fields.
NoFields == [k \in {} |-> None]

\* A field that is written when the Option has a value
\* (skip_serializing_if = "Option::is_none").
skip_if_none(option, field) == IF option.some THEN field ELSE NoFields

\* A byte string of the given length.
Data(name, len) == [bytes |-> name, len |-> len]

\* The six flags of a PrivacyHint, every combination.
PrivacyHints ==
    [calldata : BOOLEAN, contract_address : BOOLEAN, logs : BOOLEAN,
     function_selector : BOOLEAN, hash : BOOLEAN, tx_hash : BOOLEAN]

\* One `if flag { .. += 1 }` of num_hints.
count_if(n, flag) == IF flag THEN n + 1 ELSE n

\* PrivacyHint::num_hints
num_hints(self) ==
    count_if(count_if(count_if(count_if(count_if(count_if(0,
        self.calldata), self.contract_address), self.logs),
        self.function_selector), self.hash), self.tx_hash)

\* One `if flag { seq.serialize_element(tag)?; }` of serialize.
element_if(seq, flag, tag) == IF flag THEN Append(seq, JText(tag)) ELSE seq

\* A serializer that writes tx_hash before hash.
serialize_PrivacyHint_tx_hash_first(self) ==
    JArray(
        element_if(element_if(element_if(element_if(element_if(element_if(<< >>,
            self.calldata, "calldata"),
            self.contract_address, "contract_address"),
            self.logs, "logs"),
            self.function_selector, "function_selector"),
            self.tx_hash, "tx_hash"),
            self.hash, "hash"))

\* impl Serialize for PrivacyHint: the sequence of the set flags' tags.
serialize_PrivacyHint(self) ==
    JArray(
        element_if(element_if(element_if(element_if(element_if(element_if(<< >>,
            self.calldata, "calldata"),
            self.contract_address, "contract_address"),
            self.logs, "logs"),
            self.function_selector, "function_selector"),
            self.hash, "hash"),
            self.tx_hash, "tx_hash"))

\* The hex digits i.. of a sequence of digits, as text.
RECURSIVE hex_text(_, _)
hex_text(digits, i) ==
    LET HexChars == <<"0", "1", "2", "3", "4", "5", "6", "7", "8", "9", "a",
                      "b", "c", "d", "e", "f">>
    IN  IF i > Len(digits) THEN ""
        ELSE HexChars[digits[i] + 1] \o hex_text(digits, i + 1)

\* String::deserialize: the text of a JSON string, whatever it spells.  A
\* quantity is "0x" and its hex digits; a byte string is "0x" and its
\* bytes in hex, which stand here under the byte string's name.
string_of(json) ==
    IF json.enc = "text" THEN json.text
    ELSE IF json.enc = "quantity" THEN "0x" \o hex_text(json.digits, 1)
    ELSE "0x" \o json.bytes.bytes

\* Vec::<String>::deserialize: an array whose items are all strings.
deserialize_VecString(json) ==
    IF json.kind = "array"
       /\ \A i \in 1..Len(json.items) : json.items[i].kind = "string"
    THEN Ok([i \in 1..Len(json.items) |-> string_of(json.items[i])])
    ELSE Err("invalid type")

\* A match whose last arm ignores a tag it does not know.
match_hint_ignoring_unknown(privacy_hint, hint) ==
    IF hint \in {"calldata", "contract_address", "logs", "function_selector",
                 "hash", "tx_hash"}
    THEN Ok([privacy_hint EXCEPT ![hint] = TRUE])
    ELSE Ok(privacy_hint)

\* One arm of the match of deserialize.
match_hint(privacy_hint, hint) ==
    IF hint = "calldata" THEN Ok([privacy_hint EXCEPT !.calldata = TRUE])
    ELSE IF hint = "contract_address"
    THEN Ok([privacy_hint EXCEPT !.contract_address = TRUE])
    ELSE IF hint = "logs" THEN Ok([privacy_hint EXCEPT !.logs = TRUE])
    ELSE IF hint = "function_selector"
    THEN Ok([privacy_hint EXCEPT !.function_selector = TRUE])
    ELSE IF hint = "hash" THEN Ok([privacy_hint EXCEPT !.hash = TRUE])
    ELSE IF hint = "tx_hash" THEN Ok([privacy_hint EXCEPT !.tx_hash = TRUE])
    ELSE Err("invalid privacy hint")

\* The loop of deserialize over the hints from position i on.
RECURSIVE for_hint(_, _, _)
for_hint(privacy_hint, hints, i) ==
    IF i > Len(hints) THEN Ok(privacy_hint)
    ELSE LET r == match_hint(privacy_hint, hints[i])
         IN  IF r.ok THEN for_hint(r.value, hints, i + 1) ELSE r

\* impl Deserialize for PrivacyHint
deserialize_PrivacyHint(json) ==
    LET hints == deserialize_VecString(json)
    IN  IF hints.ok THEN for_hint(NoHints, hints.value, 1) ELSE hints

\* The tags of the wire format and one that is none of them.
HintTags ==
    {"calldata", "contract_address", "logs", "function_selector", "hash",
     "tx_hash", "unknown"}

\* Arrays of up to MaxHintTags tags, in any order and with repetitions.
HintArrays ==
    {JArray([i \in 1..n |-> JText(tags[i])]) :
        n \in 0..MaxHintTags, tags \in [1..MaxHintTags -> HintTags]}

\* The 16 hex digits of a U64, most significant first.
hex_digits(u) ==
    [i \in 1..16 |-> (u[((i - 1) \div 4) + 1] \div (16 ^ (3 - ((i - 1) % 4)))) % 16]

\* Serialize for U64: "0x" and the hex digits without leading zeros.
serialize_U64(u) ==
    LET d == hex_digits(u)
        nonzero == {i \in 1..16 : d[i] # 0}
        first == IF nonzero = {} THEN 16
                 ELSE CHOOSE i \in nonzero : \A j \in nonzero : i <= j
    IN  JQuantity(SubSeq(d, first, 16))

\* Deserialize for U64: "0x" and one to sixteen hex digits.
deserialize_U64(json) ==
    IF json.kind = "string" /\ json.enc = "quantity"
       /\ Len(json.digits) \in 1..16
    THEN LET pad == 16 - Len(json.digits)
             d == [i \in 1..16 |-> IF i <= pad THEN 0 ELSE json.digits[i - pad]]
         IN  Ok([j \in 1..4 |->
                   d[4 * j - 3] * 4096 + d[4 * j - 2] * 256
                   + d[4 * j - 1] * 16 + d[4 * j]])
    ELSE Err("invalid type")

\* Deserialize for H256 (len = 32) and Address (len = 20).
deserialize_fixed(json, len) ==
    IF json.kind = "string" /\ json.enc = "data" /\ json.bytes.len = len
    THEN Ok(json.bytes)
    ELSE Err("invalid type")

\* Deserialize for Bytes.
deserialize_Bytes(json) ==
    IF json.kind = "string" /\ json.enc = "data" THEN Ok(json.bytes)
    ELSE Err("invalid type")

\* Deserialize for u64: a number that is no negative one.  The numbers of
\* the inputs are far below 2^64, the other end of the range.
deserialize_u64(json) ==
    IF json.kind # "number" THEN Err("invalid type")
    ELSE IF json.n < 0 THEN Err("invalid value")
    ELSE Ok(json.n)

\* Serialize for ProtocolVersion: the renamed variant.
serialize_ProtocolVersion(version) ==
    JText(IF version = "Beta1" THEN "beta-1" ELSE "v0.1")

\* The variant a renamed variant name stands for.
ProtocolVersion_variant(name) ==
    IF name = "beta-1" THEN Ok("Beta1")
    ELSE IF name = "v0.1" THEN Ok("V0_1")
    ELSE Err("unknown variant")

\* Deserialize for ProtocolVersion, an enum of unit variants: the variant's
\* name as a string, or an object whose only key is the name and whose value
\* is null.
deserialize_ProtocolVersion(json) ==
    IF json.kind = "string" /\ json.enc = "text"
    THEN ProtocolVersion_variant(json.text)
    ELSE IF json.kind = "object" /\ Cardinality(DOMAIN json.fields) = 1
    THEN LET name == CHOOSE k \in DOMAIN json.fields : TRUE
             variant == ProtocolVersion_variant(name)
         IN  IF ~variant.ok THEN variant
             ELSE IF json.fields[name].kind # "null" THEN Err("invalid type")
             ELSE variant
    ELSE Err("invalid type")

\* The value of a key of an object, null for a key the object has not.
at(fields, key) == IF key \in DOMAIN fields THEN fields[key] ELSE JNull

\* The items of an array, none for a value that is no array.
items_of(json) == IF json.kind = "array" THEN json.items ELSE << >>

\* Deserialize for bool.
deserialize_bool(json) ==
    IF json.kind = "bool" THEN Ok(json.b) ELSE Err("invalid type")

\* Vec<T>: an array whose items, deserialized in order, gave `items`; an
\* item that fails is the error.
deserialize_Vec(json, items) ==
    IF json.kind # "array" THEN Err("invalid type")
    ELSE IF \E i \in 1..Len(items) : ~items[i].ok THEN Err("invalid item")
    ELSE Ok([i \in 1..Len(items) |-> items[i].value])

\* What the visitor of a derived struct reads, by field name: the entries
\* of an object (visit_map), or the items of an array, which stand for the
\* fields `names` in the order of their declaration (visit_seq).
struct_fields(json, names) ==
    IF json.kind = "object" THEN json.fields
    ELSE LET given == {i \in 1..Len(names) : i <= Len(items_of(json))}
         IN  [k \in {names[i] : i \in given} |->
                 json.items[CHOOSE i \in given : names[i] = k]]

\* The value a derived struct is read from is neither an object nor an
\* array.
not_a_struct(json) == json.kind \notin {"object", "array"}

\* An array has more items than the struct has fields.
trailing_items(json, names) ==
    json.kind = "array" /\ Len(json.items) > Len(names)

\* An Option field of a struct, whose value deserialized to `value`: null is
\* None; a key an object has not is None, an item an array has not is an
\* error.
deserialize_Option(json, names, key, value) ==
    LET fields == struct_fields(json, names)
    IN  IF key \notin DOMAIN fields
        THEN IF json.kind = "array" THEN Err("invalid length") ELSE Ok(NoValue)
        ELSE IF fields[key].kind = "null" THEN Ok(NoValue)
        ELSE IF value.ok THEN Ok(Some(value.value)) ELSE value

\* A required field of a struct, whose value deserialized to `value`.
deserialize_field(json, names, key, value) ==
    IF key \in DOMAIN struct_fields(json, names) THEN value
    ELSE IF json.kind = "array" THEN Err("invalid length")
    ELSE Err("missing field")

\* An Inclusion serializer that keeps the field name max_block.
serialize_Inclusion_snake_case(self) ==
    JObject(("block" :> serialize_U64(self.block))
            @@ skip_if_none(self.max_block,
                            "max_block" :> serialize_U64(self.max_block.value)))

\* Serialize for Inclusion (rename_all = "camelCase").
serialize_Inclusion(self) ==
    JObject(("block" :> serialize_U64(self.block))
            @@ skip_if_none(self.max_block,
                            "maxBlock" :> serialize_U64(self.max_block.value)))

\* Deserialize for Inclusion.
deserialize_Inclusion(json) ==
    IF not_a_struct(json) THEN Err("invalid type")
    ELSE LET names == <<"block", "maxBlock">>
             f == struct_fields(json, names)
             block ==
                 deserialize_field(json, names, "block",
                                   deserialize_U64(at(f, "block")))
             max_block ==
                 deserialize_Option(json, names, "maxBlock",
                                    deserialize_U64(at(f, "maxBlock")))
         IN  IF ~block.ok THEN block
             ELSE IF ~max_block.ok THEN max_block
             ELSE IF trailing_items(json, names) THEN Err("invalid length")
             ELSE Ok([block |-> block.value, max_block |-> max_block.value])

\* Serialize for BundleTx (untagged): the fields of the variant.
serialize_BundleTx(self) ==
    IF self.variant = "TxHash"
    THEN JObject("hash" :> JData(self.hash))
    ELSE JObject(("tx" :> JData(self.tx))
                 @@ ("canRevert" :> JBool(self.can_revert)))

\* The TxHash variant read from a JSON value; a struct variant of an
\* untagged enum is read from an object only.
deserialize_TxHash(json) ==
    IF json.kind # "object" THEN Err("invalid type")
    ELSE LET names == <<"hash">>
             f == struct_fields(json, names)
             hash ==
                 deserialize_field(json, names, "hash",
                                   deserialize_fixed(at(f, "hash"), 32))
         IN  IF hash.ok THEN Ok(TxHash(hash.value)) ELSE hash

\* The Tx variant read from a JSON value, with the field name `key` for
\* can_revert.
deserialize_Tx(json, key) ==
    IF json.kind # "object" THEN Err("invalid type")
    ELSE LET names == <<"tx", key>>
             f == struct_fields(json, names)
             tx ==
                 deserialize_field(json, names, "tx",
                                   deserialize_Bytes(at(f, "tx")))
             can_revert ==
                 deserialize_field(json, names, key,
                                   deserialize_bool(at(f, key)))
         IN  IF ~tx.ok THEN tx
             ELSE IF ~can_revert.ok THEN can_revert
             ELSE Ok(Tx(tx.value, can_revert.value))

\* A BundleTx deserializer whose Tx variant keeps the field name can_revert.
deserialize_BundleTx_snake_case(json) ==
    LET hash == deserialize_TxHash(json)
        tx == deserialize_Tx(json, "can_revert")
    IN  IF hash.ok THEN hash
        ELSE IF tx.ok THEN tx
        ELSE Err("data did not match any variant of untagged enum BundleTx")

\* Deserialize for BundleTx (untagged): the variants are tried in the order
\* of the enum, the first that reads the value wins.
deserialize_BundleTx(json) ==
    LET hash == deserialize_TxHash(json)
        tx == deserialize_Tx(json, "canRevert")
    IN  IF hash.ok THEN hash
        ELSE IF tx.ok THEN tx
        ELSE Err("data did not match any variant of untagged enum BundleTx")

\* Serialize for Refund.
serialize_Refund(self) ==
    JObject(("bodyIdx" :> JNumber(self.body_idx))
            @@ ("percent" :> JNumber(self.percent)))

\* Deserialize for Refund.
deserialize_Refund(json) ==
    IF not_a_struct(json) THEN Err("invalid type")
    ELSE LET names == <<"bodyIdx", "percent">>
             f == struct_fields(json, names)
             body_idx ==
                 deserialize_field(json, names, "bodyIdx",
                                   deserialize_u64(at(f, "bodyIdx")))
             percent ==
                 deserialize_field(json, names, "percent",
                                   deserialize_u64(at(f, "percent")))
         IN  IF ~body_idx.ok THEN body_idx
             ELSE IF ~percent.ok THEN percent
             ELSE IF trailing_items(json, names) THEN Err("invalid length")
             ELSE Ok([body_idx |-> body_idx.value, percent |-> percent.value])

\* Serialize for RefundConfig.
serialize_RefundConfig(self) ==
    JObject(("address" :> JData(self.address))
            @@ ("percent" :> JNumber(self.percent)))

\* Deserialize for RefundConfig.
deserialize_RefundConfig(json) ==
    IF not_a_struct(json) THEN Err("invalid type")
    ELSE LET names == <<"address", "percent">>
             f == struct_fields(json, names)
             address ==
                 deserialize_field(json, names, "address",
                     deserialize_fixed(at(f, "address"), AddressHexDigits \div 2))
             percent ==
                 deserialize_field(json, names, "percent",
                                   deserialize_u64(at(f, "percent")))
         IN  IF ~address.ok THEN address
             ELSE IF ~percent.ok THEN percent
             ELSE IF trailing_items(json, names) THEN Err("invalid length")
             ELSE Ok([address |-> address.value, percent |-> percent.value])

\* Serialize for Validity.
serialize_Validity(self) ==
    LET Refunds(v) == JArray([i \in 1..Len(v) |-> serialize_Refund(v[i])])
        RefundConfigs(v) ==
            JArray([i \in 1..Len(v) |-> serialize_RefundConfig(v[i])])
    IN  JObject(skip_if_none(self.refund,
                             "refund" :> Refunds(self.refund.value))
                @@ skip_if_none(self.refund_config,
                                "refundConfig"
                                    :> RefundConfigs(self.refund_config.value)))

\* Deserialize for Validity.
deserialize_Validity(json) ==
    IF not_a_struct(json) THEN Err("invalid type")
    ELSE LET names == <<"refund", "refundConfig">>
             f == struct_fields(json, names)
             Refunds(j) ==
                 deserialize_Vec(j, [i \in 1..Len(items_of(j)) |->
                                        deserialize_Refund(j.items[i])])
             RefundConfigs(j) ==
                 deserialize_Vec(j, [i \in 1..Len(items_of(j)) |->
                                        deserialize_RefundConfig(j.items[i])])
             refund ==
                 deserialize_Option(json, names, "refund",
                                    Refunds(at(f, "refund")))
             refund_config ==
                 deserialize_Option(json, names, "refundConfig",
                                    RefundConfigs(at(f, "refundConfig")))
         IN  IF ~refund.ok THEN refund
             ELSE IF ~refund_config.ok THEN refund_config
             ELSE IF trailing_items(json, names) THEN Err("invalid length")
             ELSE Ok([refund |-> refund.value,
                      refund_config |-> refund_config.value])

\* Serialize for Privacy.
serialize_Privacy(self) ==
    LET AddressList(v) == JArray([i \in 1..Len(v) |-> JData(v[i])])
    IN  JObject(skip_if_none(self.hints,
                             "hints" :> serialize_PrivacyHint(self.hints.value))
                @@ skip_if_none(self.builders,
                                "builders" :> AddressList(self.builders.value)))

\* Deserialize for Privacy.
deserialize_Privacy(json) ==
    IF not_a_struct(json) THEN Err("invalid type")
    ELSE LET names == <<"hints", "builders">>
             f == struct_fields(json, names)
             AddressList(j) ==
                 deserialize_Vec(j, [i \in 1..Len(items_of(j)) |->
                     deserialize_fixed(j.items[i], AddressHexDigits \div 2)])
             hints ==
                 deserialize_Option(json, names, "hints",
                                    deserialize_PrivacyHint(at(f, "hints")))
             builders ==
                 deserialize_Option(json, names, "builders",
                                    AddressList(at(f, "builders")))
         IN  IF ~hints.ok THEN hints
             ELSE IF ~builders.ok THEN builders
             ELSE IF trailing_items(json, names) THEN Err("invalid length")
             ELSE Ok([hints |-> hints.value, builders |-> builders.value])

\* Serialize for BundleRequest (rename_all = "camelCase"; validity and
\* privacy are skipped when None).
serialize_BundleRequest(self) ==
    LET Body(v) == JArray([i \in 1..Len(v) |-> serialize_BundleTx(v[i])])
    IN  JObject(("version" :> serialize_ProtocolVersion(self.version))
                @@ ("inclusion" :> serialize_Inclusion(self.inclusion))
                @@ ("body" :> Body(self.body))
                @@ skip_if_none(self.validity,
                                "validity" :> serialize_Validity(self.validity.value))
                @@ skip_if_none(self.privacy,
                                "privacy" :> serialize_Privacy(self.privacy.value)))

\* Deserialize for BundleRequest.
deserialize_BundleRequest(json) ==
    IF not_a_struct(json) THEN Err("invalid type")
    ELSE LET names == <<"version", "inclusion", "body", "validity", "privacy">>
             f == struct_fields(json, names)
             Body(j) ==
                 deserialize_Vec(j, [i \in 1..Len(items_of(j)) |->
                                        deserialize_BundleTx(j.items[i])])
             version ==
                 deserialize_field(json, names, "version",
                                   deserialize_ProtocolVersion(at(f, "version")))
             inclusion ==
                 deserialize_field(json, names, "inclusion",
                                   deserialize_Inclusion(at(f, "inclusion")))
             body == deserialize_field(json, names, "body", Body(at(f, "body")))
             validity ==
                 deserialize_Option(json, names, "validity",
                                    deserialize_Validity(at(f, "validity")))
             privacy ==
                 deserialize_Option(json, names, "privacy",
                                    deserialize_Privacy(at(f, "privacy")))
         IN  IF ~version.ok THEN version
             ELSE IF ~inclusion.ok THEN inclusion
             ELSE IF ~body.ok THEN body
             ELSE IF ~validity.ok THEN validity
             ELSE IF ~privacy.ok THEN privacy
             ELSE IF trailing_items(json, names) THEN Err("invalid length")
             ELSE Ok([version |-> version.value, inclusion |-> inclusion.value,
                      body |-> body.value, validity |-> validity.value,
                      privacy |-> privacy.value])

\* A PrivacyHint is serialized and the result is deserialized.
CallSerializeHint ==
    /\ fn_call.fn = "none"
    /\ \E self \in PrivacyHints :
        /\ fn_call' = [fn |-> "serialize_PrivacyHint", arg |-> self]
        /\ fn_out' = [len |-> num_hints(self),
                      json |-> serialize_PrivacyHint(self),
                      back |-> deserialize_PrivacyHint(serialize_PrivacyHint(self))]
    /\ UNCHANGED <<mainVars, engineVars, stVars, exVars>>

\* An array of tags is deserialized.
CallDeserializeHint ==
    /\ fn_call.fn = "none"
    /\ \E json \in HintArrays
                    \cup {JText("calldata"),
                          JArray(<<JQuantity(<<1>>)>>),
                          JArray(<<JText("calldata"),
                                   JData(Data("hash_a", 32))>>)} :
        /\ fn_call' = [fn |-> "deserialize_PrivacyHint", arg |-> json]
        /\ fn_out' = deserialize_PrivacyHint(json)
    /\ UNCHANGED <<mainVars, engineVars, stVars, exVars>>

\* The byte strings of the inputs: a hash, a signed transaction, an address.
HashA == Data("hash_a", 32)

TxA == Data("tx_a", 110)

AddressA == Data("address_a", AddressHexDigits \div 2)

\* The block numbers of the requests.
RequestBlocks == {U64From(0), U64From(1), U64From(17000001), U64Max}

\* The validity fields of the requests: none, the one BundleRequest::new
\* builds, and one with a refund only.
Validities ==
    <<NoValue,
      Some([refund |-> NoValue,
            refund_config |-> Some(<<[address |-> AddressA,
                                      percent |-> RefundPercent]>>)]),
      Some([refund |-> Some(<<[body_idx |-> 0, percent |-> RefundPercent]>>),
            refund_config |-> NoValue])>>

\* The privacy fields of the requests: none, an empty one, the one
\* BundleRequest::new builds, and one with two hints.
Privacies ==
    <<NoValue,
      Some([hints |-> NoValue, builders |-> NoValue]),
      Some([hints |-> Some(NoHints), builders |-> Some(<<AddressA>>)]),
      Some([hints |-> Some([NoHints EXCEPT !.calldata = TRUE, !.tx_hash = TRUE]),
            builders |-> Some(<<AddressA>>)])>>

\* The bodies: a hash reference followed by a signed transaction that may
\* not revert, one transaction that may, and the empty body.
Bodies == {<<TxHash(HashA), Tx(TxA, FALSE)>>, <<Tx(TxA, TRUE)>>, << >>}

\* A BundleRequest is serialized and the wire JSON is deserialized.
CallRoundTrip ==
    /\ fn_call.fn = "none"
    /\ \E version \in {"Beta1", "V0_1"}, block \in RequestBlocks,
          has_max \in BOOLEAN, max_block \in RequestBlocks, body \in Bodies,
          v \in DOMAIN Validities, p \in DOMAIN Privacies :
        LET self ==
              [version |-> version,
               inclusion |-> [block |-> block,
                              max_block |-> IF has_max THEN Some(max_block)
                                            ELSE NoValue],
               body |-> body,
               validity |-> Validities[v],
               privacy |-> Privacies[p]]
        IN  /\ fn_call' = [fn |-> "serialize_BundleRequest", arg |-> self]
            /\ fn_out' =
                 [json |-> serialize_BundleRequest(self),
                  back |-> deserialize_BundleRequest(serialize_BundleRequest(self))]
    /\ UNCHANGED <<mainVars, engineVars, stVars, exVars>>

\* Wire body elements of the two forms.
HashElement == JObject("hash" :> JData(HashA))

TxElement(can_revert) ==
    JObject(("tx" :> JData(TxA)) @@ ("canRevert" :> JBool(can_revert)))

\* Wire body elements of other forms: a hash that is no string, a tx without
\* canRevert, a tx with can_revert, the fields of both forms at once, and
\* the fields of both forms with a hash of the wrong length.
OtherElements ==
    {JObject("hash" :> JBool(TRUE)),
     JObject("tx" :> JData(TxA)),
     JObject(("tx" :> JData(TxA)) @@ ("can_revert" :> JBool(FALSE))),
     JObject(("hash" :> JData(HashA)) @@ ("tx" :> JData(TxA))
             @@ ("canRevert" :> JBool(TRUE))),
     JObject(("hash" :> JData(TxA)) @@ ("tx" :> JData(TxA))
             @@ ("canRevert" :> JBool(TRUE)))}

WireElements == {HashElement, TxElement(TRUE), TxElement(FALSE)} \cup OtherElements

\* Bodies of up to MaxWireBody elements of the given set.
WireBodies(elements) ==
    {[i \in 1..n |-> b[i]] : n \in 0..MaxWireBody, b \in [1..MaxWireBody -> elements]}

\* A wire request with version "v0.1" or "beta-1", inclusion.block "0x1",
\* a body of elements of the two forms, and no optional field.
MinimalRequests ==
    {JObject(("version" :> JText(v))
             @@ ("inclusion" :> JObject("block" :> JQuantity(<<1>>)))
             @@ ("body" :> JArray(b))) :
        v \in {"v0.1", "beta-1"},
        b \in WireBodies({HashElement, TxElement(TRUE), TxElement(FALSE)})}

\* Wire requests with and without each field, and with fields that do not
\* deserialize.
WireRequests ==
    {JObject(v @@ ("inclusion" :> i) @@ ("body" :> JArray(b)) @@ o) :
        v \in {"version" :> JText("v0.1"), "version" :> JText("beta-1"),
               "version" :> JText("v9"), NoFields},
        i \in {JObject("block" :> JQuantity(<<1>>)),
               JObject(("block" :> JQuantity(<<1>>))
                       @@ ("maxBlock" :> JQuantity(<<1, 15>>))),
               JObject(NoFields)},
        b \in WireBodies(WireElements),
        o \in {NoFields,
               "validity" :> JNull,
               ("validity" :> JObject(NoFields))
               @@ ("privacy" :> JObject("hints" :> JArray(<<JText("calldata")>>))),
               "privacy" :> JObject("hints" :> JArray(<<JText("unknown")>>)),
               "privacy" :> JObject("hints" :> JArray(<<JQuantity(<<1>>)>>)),
               "validity" :> JObject("refund" :> JArray(<<
                   JObject(("bodyIdx" :> JNumber(0))
                           @@ ("percent" :> JNumber(0 - 1)))>>))}}

\* Wire requests in the other forms the derived deserializers read: a
\* struct as the array of its fields in the order of their declaration, the
\* version as an object {name: null}; with arrays that are too short or too
\* long, and body elements written as arrays.
SeqRequests ==
    {JArray(<<v, i, JArray(b)>> \o o) :
        v \in {JText("v0.1"), JObject("beta-1" :> JNull),
               JObject("v0.1" :> JBool(TRUE))},
        i \in {JObject("block" :> JQuantity(<<1>>)),
               JArray(<<JQuantity(<<1>>), JQuantity(<<1, 15>>)>>),
               JArray(<<JQuantity(<<1>>), JNull>>),
               JArray(<<JQuantity(<<1>>)>>)},
        b \in {<< >>, <<HashElement, TxElement(TRUE)>>,
               <<JArray(<<JData(HashA)>>)>>},
        o \in {<<JNull, JNull>>,
               <<JArray(<<JNull, JNull>>), JArray(<<JNull, JNull>>)>>,
               <<JArray(<<JArray(<<JArray(<<JNumber(0), JNumber(RefundPercent)>>)>>),
                         JArray(<<JArray(<<JData(AddressA),
                                           JNumber(RefundPercent)>>)>>)>>),
                 JArray(<<JArray(<<JText("calldata")>>), JArray(<< >>)>>)>>,
               <<JNull>>,
               <<JNull, JNull, JNull>>}}

\* A wire request is deserialized.
CallDeserializeRequest ==
    /\ fn_call.fn = "none"
    /\ \E json \in WireRequests \cup SeqRequests :
        /\ fn_call' = [fn |-> "deserialize_BundleRequest", arg |-> json]
        /\ fn_out' = deserialize_BundleRequest(json)
    /\ UNCHANGED <<mainVars, engineVars, stVars, exVars>>

(***************************************************************************)
(* GenericMempoolCollector (generic_mempool_collector.rs)                  *)
(*                                                                         *)
(* The node's txpool_content answer holds the pending transactions in a    *)
(* BTreeMap from sender to a BTreeMap from nonce to transaction.  A map    *)
(* is a function whose keys are numbered in the order of the key type.     *)
(***************************************************************************)
\* BTreeMap::into_values: the values of the map, in ascending key order.
into_values(map) ==
    LET RECURSIVE values_from(_, _)
        values_from(m, k) ==
            IF \A j \in DOMAIN m : j < k THEN << >>
            ELSE IF k \in DOMAIN m THEN <<m[k]>> \o values_from(m, k + 1)
            ELSE values_from(m, k + 1)
    IN  values_from(map, 1)

\* Iterator::flatten over the vectors i.. of a vector of vectors.
RECURSIVE flatten(_, _)
flatten(vecs, i) ==
    IF i > Len(vecs) THEN << >> ELSE vecs[i] \o flatten(vecs, i + 1)

\* A get_event_stream that opens an empty stream when the query fails.
get_event_stream_empty_on_failure(txpool_content) ==
    IF ~txpool_content.ok THEN Ok(<< >>)
    ELSE Ok(flatten([i \in 1..Len(into_values(txpool_content.value.pending)) |->
                        into_values(into_values(txpool_content.value.pending)[i])], 1))

\* A get_event_stream that goes on with the queued transactions after the
\* pending ones.
get_event_stream_with_queued(txpool_content) ==
    IF ~txpool_content.ok THEN Err("Failed to create mempool stream")
    ELSE
    LET by_sender == into_values(txpool_content.value.pending)
        pending_txs == [i \in 1..Len(by_sender) |-> into_values(by_sender[i])]
        queued_by_sender == into_values(txpool_content.value.queued)
        queued_txs == [i \in 1..Len(queued_by_sender) |->
                          into_values(queued_by_sender[i])]
    IN  Ok(flatten(pending_txs, 1) \o flatten(queued_txs, 1))

\* get_event_stream: Err when txpool_content fails, otherwise the stream of
\* the pending transactions, sender by sender and nonce by nonce.
get_event_stream(txpool_content) ==
    IF ~txpool_content.ok THEN Err("Failed to create mempool stream")
    ELSE
    LET by_sender == into_values(txpool_content.value.pending)
        pending_txs == [i \in 1..Len(by_sender) |-> into_values(by_sender[i])]
    IN  Ok(flatten(pending_txs, 1))

\* The transaction a sender has pending at a nonce, as first sent.
PendingTx(sender, nonce) == [from |-> sender, nonce |-> nonce, gas_price |-> 1]

\* The queued part of a txpool_content answer: nothing, or one transaction
\* of sender 1 at a nonce beyond the pending ones.
QueuedParts ==
    {[a \in {} |-> << >>],
     [a \in {1} |-> [n \in {MaxPending + 1} |-> PendingTx(1, MaxPending + 1)]]}

\* What the node answers to txpool_content: a failure, or the pending
\* transactions of up to MaxPending senders at up to MaxPending nonces,
\* with the queued ones.
TxpoolAnswers ==
    {RpcErr([pending |-> << >>, queued |-> << >>])}
    \cup {Ok([pending |-> [a \in DOMAIN ns |-> [n \in ns[a] |-> PendingTx(a, n)]],
               queued |-> q]) :
            ns \in UNION {[A -> SUBSET (1..MaxPending)] : A \in SUBSET (1..MaxPending)},
            q \in QueuedParts}

CallGetEventStream ==
    /\ fn_call.fn = "none"
    /\ \E txpool_content \in TxpoolAnswers :
        /\ fn_call' = [fn |-> "get_event_stream", arg |-> txpool_content]
        /\ fn_out' = get_event_stream(txpool_content)
    /\ UNCHANGED <<mainVars, engineVars, stVars, exVars>>

\* What the node holds: its pending and its queued transactions.
NoTxpool == [pending |-> << >>, queued |-> << >>]

\* What a node holds when get_event_stream is called: the pending
\* transactions of the first m senders, each at its first k nonces, with the
\* queued ones.
NodeTxpools ==
    {[pending |-> [a \in 1..m |-> [n \in 1..k |-> PendingTx(a, n)]],
      queued |-> q] :
        m \in 0..MaxPending, k \in 1..MaxPending, q \in QueuedParts}

\* A GenericMempoolCollector is registered next to a strategy, and the
\* engine has not spawned the collector's task yet: no txpool query was
\* made, no stream exists, nothing is published.
MempoolInit ==
    /\ mainpc = "none"
    /\ strong = 0
    /\ reg = [i \in Relays |-> "unspawned"]
    /\ EngineIdle
    /\ StrategyIdle
    /\ ExecutorIdle
    /\ fn_call = [fn |-> "none",
                  arg |-> [at_call |-> NoTxpool, node |-> NoTxpool,
                           answer |-> RpcErr(NoTxpool), late |-> 0,
                           changes |-> 0]]
    /\ fn_out = [stream |-> << >>, error |-> "", published |-> << >>,
                 status |-> "unspawned", subscriber |-> "unspawned", taken |-> 0]

\* The collector task of a GenericMempoolCollector opens the source:
\* get_event_stream is called and polled for the first time, the
\* txpool_content request goes to the node, and the task is suspended at the
\* await (line 36) with no stream and no error yet.  The strategy task
\* subscribed to the Event bus is running by then.
MempoolOpen ==
    /\ fn_call.fn = "none"
    /\ \E txpool \in NodeTxpools :
        fn_call' = [fn |-> "collect",
                    arg |-> [at_call |-> txpool, node |-> txpool,
                             answer |-> RpcErr(NoTxpool), late |-> 0,
                             changes |-> 0]]
    /\ fn_out' = [fn_out EXCEPT !.status = "awaiting", !.subscriber = "running"]
    /\ UNCHANGED <<mainVars, engineVars, stVars, exVars>>

\* The k-th transaction a new sender sends to the node after the call.
LateTx(k) == PendingTx(MaxPending + k, 1)

\* The node's txpool can change: the call is awaited or the task drains the
\* stream, and the node has changed fewer than MaxLate times since the call.
NodeCanChange ==
    /\ fn_call.fn = "collect"
    /\ fn_out.status \in {"awaiting", "running"}
    /\ fn_call.arg.changes < MaxLate

\* A part of the txpool with the transaction tx put at its sender and nonce.
with_tx(part, tx) ==
    [a \in DOMAIN part \cup {tx.from} |->
        IF a = tx.from
        THEN [n \in (IF a \in DOMAIN part THEN DOMAIN part[a] ELSE {})
                       \cup {tx.nonce} |->
                 IF n = tx.nonce THEN tx ELSE part[a][n]]
        ELSE part[a]]

\* A part of the txpool without the transaction of sender a at nonce n; a
\* sender with no transaction left is dropped from the part.
without_tx(part, a, n) ==
    [b \in {c \in DOMAIN part : c # a \/ DOMAIN part[c] # {n}} |->
        IF b = a THEN [m \in DOMAIN part[a] \ {n} |-> part[a][m]]
        ELSE part[b]]

\* The node takes the next transaction of a new sender into its pending set.
TxArrives ==
    /\ NodeCanChange
    /\ fn_call' = [fn_call EXCEPT
                     !.arg.node.pending = with_tx(@, LateTx(fn_call.arg.late + 1)),
                     !.arg.late = @ + 1,
                     !.arg.changes = @ + 1]
    /\ UNCHANGED <<mainVars, engineVars, stVars, exVars, fn_out>>

\* A pending transaction leaves the node's txpool: the next transaction of
\* the first sender is mined, or dropped.
TxLeaves ==
    /\ NodeCanChange
    /\ fn_call.arg.node.pending # << >>
    /\ LET pending == fn_call.arg.node.pending
           a == CHOOSE x \in DOMAIN pending : \A y \in DOMAIN pending : x <= y
           n == CHOOSE x \in DOMAIN pending[a] :
                    \A y \in DOMAIN pending[a] : x <= y
       IN  fn_call' = [fn_call EXCEPT
                         !.arg.node.pending = without_tx(@, a, n),
                         !.arg.changes = @ + 1]
    /\ UNCHANGED <<mainVars, engineVars, stVars, exVars, fn_out>>

\* A pending transaction, the last of the last sender, is replaced by
\* another of the same sender and nonce, at a higher gas price.
TxReplaced ==
    /\ NodeCanChange
    /\ fn_call.arg.node.pending # << >>
    /\ LET pending == fn_call.arg.node.pending
           a == CHOOSE x \in DOMAIN pending : \A y \in DOMAIN pending : y <= x
           n == CHOOSE x \in DOMAIN pending[a] :
                    \A y \in DOMAIN pending[a] : y <= x
           tx == pending[a][n]
       IN  fn_call' = [fn_call EXCEPT
                          !.arg.node.pending =
                              with_tx(@, [tx EXCEPT !.gas_price = @ + 1]),
                          !.arg.changes = @ + 1]
    /\ UNCHANGED <<mainVars, engineVars, stVars, exVars, fn_out>>

\* A queued transaction becomes pending.
TxPromoted ==
    /\ NodeCanChange
    /\ \E a \in DOMAIN fn_call.arg.node.queued :
       \E n \in DOMAIN fn_call.arg.node.queued[a] :
        fn_call' = [fn_call EXCEPT
                      !.arg.node.pending = with_tx(@, fn_call.arg.node.queued[a][n]),
                      !.arg.node.queued = without_tx(@, a, n),
                      !.arg.changes = @ + 1]
    /\ UNCHANGED <<mainVars, engineVars, stVars, exVars, fn_out>>

\* The node answers the query, with what it holds now or with a failure,
\* and the task is polled again: get_event_stream hands back the stream
\* built from the answer, or the error that ends the task.
MempoolAnswer ==
    /\ fn_call.fn = "collect"
    /\ fn_out.status = "awaiting"
    /\ \E txpool_content \in {Ok(fn_call.arg.node), RpcErr(NoTxpool)} :
        LET opened == get_event_stream(txpool_content)
        IN  /\ fn_call' = [fn_call EXCEPT !.arg.answer = txpool_content]
            /\ fn_out' = [fn_out EXCEPT
                            !.stream = IF opened.ok THEN opened.value ELSE << >>,
                            !.error = IF opened.ok THEN "" ELSE opened.value,
                            !.status = IF opened.ok THEN "running" ELSE "failed"]
    /\ UNCHANGED <<mainVars, engineVars, stVars, exVars>>

\* The task takes the next item of the stream and publishes it.
MempoolPublish ==
    /\ fn_call.fn = "collect"
    /\ fn_out.status = "running"
    /\ fn_out.stream # << >>
    /\ fn_out' = [fn_out EXCEPT
                    !.stream = Tail(@),
                    !.published = Append(@, Head(fn_out.stream))]
    /\ UNCHANGED <<mainVars, engineVars, stVars, exVars, fn_call>>

\* The stream has no next item: the task ends.
MempoolEnd ==
    /\ fn_call.fn = "collect"
    /\ fn_out.status = "running"
    /\ fn_out.stream = << >>
    /\ fn_out' = [fn_out EXCEPT !.status = "ended"]
    /\ UNCHANGED <<mainVars, engineVars, stVars, exVars, fn_call>>

\* The strategy task takes the next event from the Event bus, whatever has
\* become of the collector's task.
SubscriberTakes ==
    /\ fn_call.fn = "collect"
    /\ fn_out.subscriber = "running"
    /\ fn_out.taken < Len(fn_out.published)
    /\ fn_out' = [fn_out EXCEPT !.taken = @ + 1]
    /\ UNCHANGED <<mainVars, engineVars, stVars, exVars, fn_call>>

MempoolNext ==
    \/ MempoolOpen
    \/ TxArrives
    \/ TxLeaves
    \/ TxReplaced
    \/ TxPromoted
    \/ MempoolAnswer
    \/ MempoolPublish
    \/ MempoolEnd
    \/ SubscriberTakes

\* The runtime polls the task as long as it can take a step.
MempoolSpec ==
    MempoolInit /\ [][MempoolNext]_vars /\ WF_vars(MempoolPublish \/ MempoolEnd)

\* BundleRequest::new(block_num, max_block, version, transactions) is called.
CallNew ==
    /\ fn_call.fn = "none"
    /\ \E block_num \in BlockNumbers \cup {U64From(0)}, has_max \in BOOLEAN,
          version \in {"beta-1", "v0.1"},
          transactions \in {<< >>, <<TxHash("0xha5h")>>,
                            <<TxHash("0xha5h"), Tx("0x02f8", FALSE)>>} :
        LET max_block == IF has_max
                         THEN Some(saturating_add(block_num, U64From(1)))
                         ELSE NoValue
        IN  /\ fn_call' = [fn |-> "new",
                           arg |-> [block_num |-> block_num, max_block |-> max_block,
                                    version |-> version,
                                    transactions |-> transactions]]
            /\ fn_out' = new(block_num, max_block, version, transactions)
    /\ UNCHANGED <<mainVars, engineVars, stVars, exVars>>

\* BundleRequest::make_simple(block_num, transactions) is called.
CallMakeSimple ==
    /\ fn_call.fn = "none"
    /\ \E block_num \in BlockNumbers \cup {U64From(0)},
          transactions \in {<< >>, <<TxHash("0xha5h")>>,
                            <<TxHash("0xha5h"), Tx("0x02f8", FALSE)>>} :
        /\ fn_call' = [fn |-> "make_simple",
                       arg |-> [block_num |-> block_num,
                                transactions |-> transactions]]
        /\ fn_out' = make_simple(block_num, transactions)
    /\ UNCHANGED <<mainVars, engineVars, stVars, exVars>>

\* The outcome of a get_all_mev_share_endpoints call: Client::new panics on
\* a chain that is neither Mainnet nor Goerli.
call_get_all_mev_share_endpoints(tx_signer, chain) ==
    IF \E i \in 1..Len(endpoints) :
          Client_new(tx_signer, chain, endpoints[i][2], endpoints[i][1]).panicked
    THEN Panicked
    ELSE Returned(get_all_mev_share_endpoints(tx_signer, chain))

\* The outcome of a get_all_relay_endpoints call: Url::parse(..).unwrap()
\* panics on an endpoint that does not parse.
call_get_all_relay_endpoints(tx_signer, relay_signer) ==
    IF \E i \in 1..Len(endpoints) : ~Url_parse(endpoints[i][2]).ok
    THEN Panicked
    ELSE Returned(get_all_relay_endpoints(tx_signer, relay_signer))

\* A relay executor set is built: get_all_mev_share_endpoints(tx_signer,
\* chain) or get_all_relay_endpoints(client, tx_signer, relay_signer) is
\* called once.
CallBuildExecutors ==
    /\ fn_call.fn = "none"
    /\ \E signer \in {"signer_a", "signer_b"} :
        \/ \E chain \in {"Mainnet", "Goerli", "Sepolia"} :
            /\ fn_call' = [fn |-> "get_all_mev_share_endpoints",
                           arg |-> [tx_signer |-> signer, chain |-> chain]]
            /\ fn_out' = call_get_all_mev_share_endpoints(signer, chain)
        \/ \E relay_signer \in {"signer_a", "signer_b"} :
            /\ fn_call' = [fn |-> "get_all_relay_endpoints",
                           arg |-> [tx_signer |-> signer,
                                    relay_signer |-> relay_signer]]
            /\ fn_out' = call_get_all_relay_endpoints(signer, relay_signer)
    /\ UNCHANGED <<mainVars, engineVars, stVars, exVars>>

FunctionNext ==
    \/ CallSerializeHint
    \/ CallDeserializeHint
    \/ CallRoundTrip
    \/ CallDeserializeRequest
    \/ CallBuildExecutors
    \/ CallGetEventStream
    \/ CallMakeSimple
    \/ CallNew

FunctionSpec == UnitInit /\ [][FunctionNext]_vars

(***************************************************************************)
(* Properties of main and of the running engine (Spec)                     *)
(***************************************************************************)
\* The executor adapters registered for relay i of the registry.
AdaptersOf(i) ==
    {x \in 1..Len(engine.executors) :
        engine.executors[x].executor.matchmaker_client.url = endpoints[i][2]}

\* The entries of executor x's log for the actions of strategy k, in order.
SeenBy(x, k) ==
    LET FromK(e) == e.src = k
    IN  SelectSeq(xlog[x], FromK)

\* The process_event calls of strategy k on events of collector c, in order.
ProcessedFrom(k, c) ==
    LET FromC(e) == e.src = c
    IN  SelectSeq(processed[k], FromC)

\* C1: every Action the strategy emitted has, for each of the relay registry
\* entries, an executor adapter bound to that relay whose task takes the
\* Action from the bus and calls execute on it.
C1_EveryRelayAttempts ==
    \A k \in DOMAIN actions : \A n \in 1..Len(actions[k]) : \A i \in Relays :
        \E x \in AdaptersOf(i) :
            /\ Task("executor", x) \in DOMAIN status
            /\ xcursor[x][k] >= n => SeenBy(x, k)[n].executed

\* C2: when main calls engine.run(), every registration task has registered
\* its adapter and ended, and the engine holds exactly one adapter per relay
\* registry entry.
C2_OneAdapterPerRelay ==
    mainpc = "run"
    => /\ \A i \in Relays : reg[i] = "finished"
       /\ Len(engine.executors) = Len(endpoints)
       /\ \A i \in Relays : Cardinality(AdaptersOf(i)) = 1

\* main has taken the engine out of the Arc to run it.
HandedToRun == mainpc = "run" \/ run_result # "NotCalled"

\* C3: once main has handed the engine to run, no handle to the engine is
\* left by which a registration could take effect (every registration task
\* has ended, the Arc's count is 0), and the registered collectors,
\* strategies and executors never change again.
C3_RegisteredSetsFrozen ==
    /\ [](HandedToRun
          => strong = 0 /\ \A i \in Relays : reg[i] \in {"panicked", "finished"})
    /\ [][HandedToRun => engine' = engine]_vars

\* C3 happens: the engine runs with the collector and the strategy main
\* registered, and an Action has been emitted since run started.
C3_Witness ==
    /\ run_result = "Ok"
    /\ Len(engine.collectors) = 1
    /\ Len(engine.strategies) = 1
    /\ actions[1] # << >>

\* Every collector has finished and every strategy task still running has
\* taken every event published.
EventsDrained ==
    /\ run_result = "Ok"
    /\ \A c \in 1..Len(engine.collectors) : Finished(Task("collector", c))
    /\ \A k \in 1..Len(engine.strategies) : \A c \in 1..Len(engine.collectors) :
        status[Task("strategy", k)] = "running" => cursor[k][c] = Len(published[c])

\* C4: once the events are drained, each strategy's process_event has been
\* invoked once per published Event, in each collector's publishing order.
C4_EveryEventProcessed ==
    EventsDrained
    => \A k \in 1..Len(engine.strategies) : \A c \in 1..Len(engine.collectors) :
        /\ Len(ProcessedFrom(k, c)) = Len(published[c])
        /\ \A n \in 1..Len(ProcessedFrom(k, c)) : ProcessedFrom(k, c)[n].seq = n

\* main's engine never holds an executor adapter, and run spawns no
\* executor task.
NoExecutorRegistered ==
    /\ engine.executors = << >>
    /\ \A t \in DOMAIN status : t[1] # "executor"

\* C6: while the engine runs, the set of tasks never changes, a task that has
\* ended is never started again, a step changes the status of at most one
\* task (a task's end leaves every sibling as it was), and taking an outcome
\* from the join set reports that task's own outcome, once, and changes no
\* task.
C6_NoCancelNoRestart ==
    [][run_result = "Ok"
       => /\ DOMAIN status' = DOMAIN status
          /\ \A t \in DOMAIN status :
                /\ Finished(t) => status'[t] = status[t]
                /\ status'[t] \in {"spawned", "running", "ended", "failed"}
                /\ status'[t] # status[t]
                   => \A u \in DOMAIN status \ {t} : status'[u] = status[u]
          /\ joined \subseteq joined'
          /\ \A j \in joined' \ joined :
                /\ Finished(j.task)
                /\ j.res = status[j.task]
                /\ j.task \notin Joined
          /\ joined' # joined => status' = status]_vars

\* C6 happens: the strategy task has panicked and main has taken its outcome
\* from the join set, while the collector task runs on and has published
\* another event since.
C6_Witness ==
    /\ mainpc = "join"
    /\ [task |-> Task("strategy", 1), res |-> "failed"] \in joined
    /\ status[Task("collector", 1)] = "running"
    /\ Len(published[1]) > Len(processed[1])

\* C16: a process_event call during which get_gas_price or get_block_number
\* failed does not panic and leaves the strategy task running, ready for the
\* next event.
C16_NodeFailureRecoverable ==
    \A k \in DOMAIN processed :
        (processed[k] # << >> /\ processed[k][Len(processed[k])].node_err)
        => /\ ~processed[k][Len(processed[k])].panicked
           /\ status[Task("strategy", k)] = "running"

\* A sync_state call of strategy k failed.
SyncFailed(k) == \E n \in 1..Len(sync_calls[k]) : ~sync_calls[k][n].ok

\* C7: sync_state is invoked at most once on each strategy, exactly once and
\* with Ok on every strategy when run returns Ok; a strategy has a task and
\* processes events only after its sync_state returned Ok; and when a
\* sync_state fails, run returns Err, main returns without draining a join
\* set, and no strategy has processed any event.
C7_SyncOnceBeforeEvents ==
    /\ \A k \in DOMAIN sync_calls :
        /\ Len(sync_calls[k]) <= 1
        /\ run_result = "Ok" => sync_calls[k] = <<Ok(None)>>
        /\ (processed[k] # << >> \/ Task("strategy", k) \in DOMAIN status)
           => sync_calls[k] = <<Ok(None)>>
    /\ (\E k \in DOMAIN sync_calls : SyncFailed(k))
       => /\ run_result = "Err"
          /\ mainpc = "done"
          /\ \A k \in DOMAIN processed : processed[k] = << >>

\* C7 happens: sync_state returned Ok once, the pool table is loaded, and the
\* strategy has processed two events since.
C7_Witness ==
    /\ run_result = "Ok"
    /\ sync_calls = <<(<<Ok(None)>>)>>
    /\ "pool_a" \in DOMAIN strategy[1].pool_map
    /\ Len(processed[1]) >= 2

(***************************************************************************)
(* Properties of the strategy object (StrategySpec)                        *)
(***************************************************************************)
\* The call made on the strategy object has returned or panicked.
CalledGenerateBundles == st_pc = "done" /\ st_in.call = "generate_bundles"

CalledProcessEvent == st_pc = "done" /\ st_in.call = "process_event"

\* The node and the signer answer every call of this generate_bundles.
NodeAnswersAll(node) ==
    /\ node.gas_price.ok
    /\ node.block_number.ok
    /\ node.fill_err = {}
    /\ node.sign_err = {}

\* The ladder generate_bundles is specified to return for the block the node
\* reports: one bundle per size, valid from the next block for 30 more.
FullLadder(bundles, current_block) ==
    /\ Len(bundles) = Len(sizes)
    /\ \A i \in 1..Len(bundles) :
        /\ bundles[i].inclusion.block = overflowing_add(current_block, U64From(1)).value
        /\ bundles[i].inclusion.max_block
             = Some(overflowing_add(current_block, U64From(31)).value)

\* C8: for a pool address present in the pool table with is_weth_token0 = true,
\* a node that answers every call and a current block far below the top of
\* the range, generate_bundles returns exactly 14 bundles, each with
\* inclusion.block = current_block + 1 and inclusion.max_block =
\* current_block + 31.
C8_FourteenBundles ==
    (/\ CalledGenerateBundles
     /\ st_in.v3_address \in DOMAIN st_self.pool_map
     /\ st_self.pool_map[st_in.v3_address].is_weth_token0
     /\ NodeAnswersAll(st_in.node)
     /\ st_in.node.block_number.value = U64From(17000000))
    => /\ ~st_out.panicked
       /\ FullLadder(st_out.bundles, st_in.node.block_number.value)

\* generate_bundles was called for a pool of the table, the node reported its
\* gas price and block 17000000, and every transaction handed to the signer
\* was signed.
CalledOnKnownPool ==
    /\ CalledGenerateBundles
    /\ st_in.v3_address \in DOMAIN st_self.pool_map
    /\ st_in.node.gas_price.ok
    /\ st_in.node.block_number.ok
    /\ st_in.node.block_number.value = U64From(17000000)
    /\ st_in.node.sign_err = {}

\* The rungs outside F, in ladder order.
RungsOutside(F) ==
    LET Kept(i) == i \notin F
    IN  SelectSeq([i \in 1..Len(sizes) |-> i], Kept)

\* The backrun size of a bundle: the amount of its arbitrage transaction.
SizeOf(bundle) == bundle.body[2].tx.rlp_signed.amounts[1]

\* C11: when fill_transaction fails for the rungs of a non-empty set F and for
\* no other, generate_bundles returns one bundle for each rung outside F,
\* 14 - |F| bundles in ascending size order.
C11_FillFailuresSkipOnly ==
    (CalledOnKnownPool /\ st_in.node.fill_err # {})
    => /\ ~st_out.panicked
       /\ Len(st_out.bundles) = Len(sizes) - Cardinality(st_in.node.fill_err)
       /\ \A j \in 1..Len(st_out.bundles) :
            SizeOf(st_out.bundles[j]) = sizes[RungsOutside(st_in.node.fill_err)[j]]

\* generate_bundles returns no bundle, whatever it is called with: each
\* rung that is filled and signed ends the call in make_simple, and the only
\* ladder returned is the empty one, with every rung skipped.
NoBundleIsReturned ==
    CalledGenerateBundles
    => /\ st_out.bundles = << >>
       /\ ~st_out.panicked
          => (st_in.v3_address \in DOMAIN st_self.pool_map
              /\ st_in.node.fill_err = Rungs)

\* C9: when the address of the event's first log is absent from the pool
\* table, process_event returns None, without a call to the node or the
\* signer and without panicking.
C9_AbsentPoolNoAction ==
    (/\ CalledProcessEvent
     /\ st_in.event.event.logs # << >>
     /\ st_in.event.event.logs[1] \notin DOMAIN st_self.pool_map)
    => /\ ~st_out.panicked
       /\ ~st_out.action.some
       /\ st_out.calls = << >>

\* C9 happens: an event for pool_b was processed against a table that holds
\* pool_a only, with a node that would have answered.
C9_Witness ==
    /\ CalledProcessEvent
    /\ st_in.event.event.logs # << >>
    /\ st_in.event.event.logs[1] = "pool_b"
    /\ DOMAIN st_self.pool_map = {"pool_a"}
    /\ NodeAnswersAll(st_in.node)
    /\ ~st_out.action.some

\* C10: for an event with an empty log list, process_event returns None and
\* does not panic, whatever the pool table holds.
C10_EmptyLogsNoAction ==
    (CalledProcessEvent /\ st_in.event.event.logs = << >>)
    => /\ ~st_out.panicked
       /\ ~st_out.action.some

\* C10 happens: an event without logs was processed against a table that
\* holds both pools.
C10_Witness ==
    /\ CalledProcessEvent
    /\ st_in.event.event.logs = << >>
    /\ DOMAIN st_self.pool_map = {"pool_a", "pool_b"}
    /\ ~st_out.action.some

(***************************************************************************)
(* Properties of one execute call (ExecutorSpec)                           *)
(***************************************************************************)
MevshareCall == ex_pc # "idle" /\ "matchmaker_client" \in DOMAIN ex_self

FlashbotsCall == ex_pc # "idle" /\ "fb_client" \in DOMAIN ex_self

\* C13: during one MevshareExecutor::execute call at most 5 send_bundle
\* submissions are in flight at any moment, and whenever the call waits with
\* bundles still left in the payload the buffer holds 5 submissions: a new
\* one was started as soon as one of the 5 was taken out.
C13_AtMostFiveInFlight ==
    MevshareCall =>
        /\ Cardinality(DOMAIN ex_in_progress) <= BufferSize
        /\ Cardinality(InFlight) <= BufferSize
        /\ Len(ex_requests) = ex_stream
        /\ DOMAIN ex_in_progress \subseteq 1..ex_stream
        /\ ex_stream < Len(ex_action)
             => Cardinality(DOMAIN ex_in_progress) = BufferSize
        /\ ex_pc = "sending" => DOMAIN ex_in_progress # {}

\* A call over more than 5 bundles, after the first answer was taken out of
\* the buffer and the sixth submission took its place.
C13_Witness ==
    /\ MevshareCall
    /\ Len(ex_action) > BufferSize
    /\ Cardinality(ex_logged) = 1
    /\ ex_stream = BufferSize + 1
    /\ Cardinality(DOMAIN ex_in_progress) = BufferSize

\* C14: within one MevshareExecutor::execute call every bundle of the payload
\* gets exactly one mev_sendBundle request on the executor's relay: the
\* requests made are, in order, one per payload position, no answer is
\* logged twice, and when execute returns every position has its request and
\* its logged answer, whatever the answers were.
C14_OneAttemptPerBundle ==
    MevshareCall =>
        /\ Len(ex_requests) <= Len(ex_action)
        /\ \A j \in 1..Len(ex_requests) :
             ex_requests[j] = [url |-> ex_self.matchmaker_client.url,
                               method |-> "mev_sendBundle",
                               params |-> <<ex_action[j]>>]
        /\ Cardinality(ex_logged) = Cardinality({l.bundle : l \in ex_logged})
        /\ {l.bundle : l \in ex_logged} \subseteq 1..Len(ex_requests)
        /\ ex_pc = "done" =>
             /\ Len(ex_requests) = Len(ex_action)
             /\ {l.bundle : l \in ex_logged} = 1..Len(ex_action)
             /\ ex_result = "Ok"

\* A finished call over more than 5 bundles whose first submission failed.
C14_Witness ==
    /\ MevshareCall
    /\ ex_pc = "done"
    /\ Len(ex_action) > BufferSize
    /\ [bundle |-> 1, answer |-> "Err"] \in ex_logged
    /\ Len(ex_requests) = Len(ex_action)

\* The only failures of the call are failed node or relay calls: no signing
\* failed and the block number read is not the largest one.
OnlyNetworkFailures ==
    \/ MevshareCall
    \/ /\ FlashbotsCall
       /\ ex_env.sign_err = {}
       /\ ex_env.block_number.ok => ex_env.block_number.value # U64Max

\* C15: an execute call of either executor during which only node or relay
\* calls failed returns Ok.
C15_NetworkFailuresNotReported ==
    (ex_pc = "done" /\ OnlyNetworkFailures) => ex_result = "Ok"

(***************************************************************************)
(* Properties of the wire types and the relay sets (FunctionSpec)          *)
(***************************************************************************)
\* The tags of the wire format in their fixed order.
TagOrder ==
    <<"calldata", "contract_address", "logs", "function_selector", "hash",
      "tx_hash">>

\* The texts of an array of strings.
TextsOf(json) == [i \in 1..Len(json.items) |-> string_of(json.items[i])]

\* C17: for every combination of the six flags, serialization yields the
\* array of the set flags' tags in the order calldata, contract_address,
\* logs, function_selector, hash, tx_hash, as many as num_hints announces,
\* and deserializing that array gives back the same flags.
C17_HintRoundTrip ==
    fn_call.fn = "serialize_PrivacyHint" =>
        /\ TextsOf(fn_out.json) = SelectSeq(TagOrder, LAMBDA t : fn_call.arg[t])
        /\ fn_out.len = Len(fn_out.json.items)
        /\ fn_out.back = Ok(fn_call.arg)

\* The hint with only calldata and tx_hash set went out as the two tags.
C17_Witness ==
    /\ fn_call.fn = "serialize_PrivacyHint"
    /\ fn_call.arg = [NoHints EXCEPT !.calldata = TRUE, !.tx_hash = TRUE]
    /\ TextsOf(fn_out.json) = <<"calldata", "tx_hash">>
    /\ fn_out.back.ok

\* Two Options are both None, or both Some of the same value.
SameOption(a, b) == a.some = b.some /\ (a.some => a.value = b.value)

\* C18: serializing a BundleRequest whose body is one hash reference
\* followed by one signed transaction with can_revert = false, and
\* deserializing the wire JSON, gives back the same request, field for field.
C18_RequestRoundTrip ==
    (fn_call.fn = "serialize_BundleRequest"
     /\ fn_call.arg.body = <<TxHash(HashA), Tx(TxA, FALSE)>>)
    => /\ fn_out.back.ok
       /\ fn_out.back.value.version = fn_call.arg.version
       /\ fn_out.back.value.inclusion.block = fn_call.arg.inclusion.block
       /\ SameOption(fn_out.back.value.inclusion.max_block,
                     fn_call.arg.inclusion.max_block)
       /\ fn_out.back.value.body = fn_call.arg.body
       /\ SameOption(fn_out.back.value.validity, fn_call.arg.validity)
       /\ SameOption(fn_out.back.value.privacy, fn_call.arg.privacy)

\* A request with every optional field set made the round trip, its block
\* numbers written as "0x1036641" and "0x103665f".
C18_Witness ==
    /\ fn_call.fn = "serialize_BundleRequest"
    /\ fn_call.arg.body = <<TxHash(HashA), Tx(TxA, FALSE)>>
    /\ fn_call.arg.inclusion.block = U64From(17000001)
    /\ fn_call.arg.inclusion.max_block.some
    /\ fn_call.arg.inclusion.max_block.value = U64Max
    /\ fn_call.arg.validity.some
    /\ fn_call.arg.privacy.some /\ fn_call.arg.privacy.value.hints.some
    /\ fn_out.json.fields["inclusion"].fields["block"].digits
         = <<1, 0, 3, 6, 6, 4, 1>>
    /\ DOMAIN fn_out.json.fields["inclusion"].fields = {"block", "maxBlock"}
    /\ fn_out.back.ok

\* The BundleTx a wire element of one of the two forms stands for.
ExpectedTx(element) ==
    IF "hash" \in DOMAIN element.fields
    THEN TxHash(element.fields["hash"].bytes)
    ELSE Tx(element.fields["tx"].bytes, element.fields["canRevert"].b)

\* C19: deserializing a wire request without inclusion.maxBlock, validity
\* and privacy succeeds with those fields absent, and every body element
\* {hash} becomes BundleTx::TxHash with that hash and every element
\* {tx, canRevert} becomes BundleTx::Tx with that can_revert.
C19_MinimalRequestDeserializes ==
    (fn_call.fn = "deserialize_BundleRequest" /\ fn_call.arg \in MinimalRequests)
    => /\ fn_out.ok
       /\ fn_out.value.inclusion.block = U64From(1)
       /\ ~fn_out.value.inclusion.max_block.some
       /\ ~fn_out.value.validity.some
       /\ ~fn_out.value.privacy.some
       /\ fn_out.value.body =
            [i \in 1..Len(fn_call.arg.fields["body"].items) |->
                ExpectedTx(fn_call.arg.fields["body"].items[i])]

\* The request of tests::can_deserialize, with a hash reference in front of
\* its transaction.
C19_Witness ==
    /\ fn_call.fn = "deserialize_BundleRequest"
    /\ fn_call.arg \in MinimalRequests
    /\ fn_call.arg.fields["version"] = JText("v0.1")
    /\ fn_call.arg.fields["body"].items = <<HashElement, TxElement(FALSE)>>
    /\ fn_out.ok
    /\ fn_out.value.body = <<TxHash(HashA), Tx(TxA, FALSE)>>

\* A request written as an array is read exactly when it has the five
\* fields, its version names a variant with null, its inclusion has both
\* fields, and every body element is an object; its fields are then the
\* items in the order of the declaration.
SeqRequestRead ==
    (fn_call.fn = "deserialize_BundleRequest" /\ fn_call.arg \in SeqRequests)
    => /\ fn_out.ok <=>
            /\ Len(fn_call.arg.items) = 5
            /\ deserialize_ProtocolVersion(fn_call.arg.items[1]).ok
            /\ fn_call.arg.items[2].kind = "array"
                 => Len(fn_call.arg.items[2].items) = 2
            /\ \A i \in 1..Len(fn_call.arg.items[3].items) :
                 fn_call.arg.items[3].items[i].kind = "object"
       /\ fn_out.ok =>
            /\ fn_out.value.inclusion.block = U64From(1)
            /\ fn_out.value.validity.some <=> fn_call.arg.items[4].kind # "null"
            /\ fn_out.value.privacy.some <=> fn_call.arg.items[5].kind # "null"
            /\ Len(fn_out.value.body) = Len(fn_call.arg.items[3].items)

\* A refund whose percent is a negative number holds no u64: the request
\* is rejected.
NegativePercentRejected ==
    (/\ fn_call.fn = "deserialize_BundleRequest"
     /\ fn_call.arg.kind = "object"
     /\ "validity" \in DOMAIN fn_call.arg.fields
     /\ fn_call.arg.fields["validity"].kind = "object"
     /\ "refund" \in DOMAIN fn_call.arg.fields["validity"].fields)
    => ~fn_out.ok

\* The array ["0x1"] is an array of strings whose one string is no tag: it
\* is rejected as a hint, not as a value of the wrong type.
HexStringIsNoTag ==
    (fn_call.fn = "deserialize_PrivacyHint"
     /\ fn_call.arg = JArray(<<JQuantity(<<1>>)>>))
    => /\ deserialize_VecString(fn_call.arg) = Ok(<<"0x1">>)
       /\ fn_out = Err("invalid privacy hint")

\* The relay name an executor is bound to.
NameOf(executor) ==
    IF "matchmaker_client" \in DOMAIN executor
    THEN executor.matchmaker_client.client_name
    ELSE executor.client_name

\* The signer an executor signs with: its relay requests (MEV-share) or its
\* transactions (Flashbots).
SignerOf(executor) ==
    IF "matchmaker_client" \in DOMAIN executor
    THEN executor.matchmaker_client.signer
    ELSE executor.tx_signer

\* The endpoint an executor is bound to.
EndpointOf(executor) ==
    IF "matchmaker_client" \in DOMAIN executor
    THEN executor.matchmaker_client.url
    ELSE executor.fb_client.relay_url.serialization

\* A returned executor set has one executor per registry entry, in the
\* registry's order, each with the entry's name and the signer it was given
\* and, unless the chain is Goerli for a MEV-share executor, the entry's
\* endpoint.
ExecutorSetFollowsRegistry ==
    (fn_call.fn \in {"get_all_mev_share_endpoints", "get_all_relay_endpoints"}
     /\ ~fn_out.panicked)
    => /\ Len(fn_out.value) = Len(endpoints)
       /\ \A i \in 1..Len(endpoints) :
            /\ NameOf(fn_out.value[i]) = endpoints[i][1]
            /\ SignerOf(fn_out.value[i]) = fn_call.arg.tx_signer
            /\ (fn_call.fn = "get_all_relay_endpoints"
                \/ fn_call.arg.chain = "Mainnet")
               => EndpointOf(fn_out.value[i]) = endpoints[i][2]

\* C21: on every chain Client::new accepts, the MEV-share executor built for
\* a registry entry is bound to that entry's own endpoint, so the executors
\* of one set are bound to pairwise distinct endpoints.
C21_ClientBoundToOwnEndpoint ==
    (fn_call.fn = "get_all_mev_share_endpoints" /\ ~fn_out.panicked)
    => /\ \A i \in 1..Len(endpoints) :
            EndpointOf(fn_out.value[i]) = endpoints[i][2]
       /\ \A i, j \in 1..Len(endpoints) :
            i # j => EndpointOf(fn_out.value[i])
                       # EndpointOf(fn_out.value[j])

\* C22: a process_event or generate_bundles call, whatever it is given and
\* however it ends, leaves the pool table as sync_state built it: no entry is
\* added, removed or changed.
C22_PoolTableWrittenOnlyBySync ==
    [][st_in'.call \in {"process_event", "generate_bundles"}
       => st_self'.pool_map = st_self.pool_map]_vars

\* process_event ran on a synced table of one pool, skipped every rung and
\* returned an Action; the table still holds that pool only.
C22_Witness ==
    /\ st_pc = "done"
    /\ st_in.call = "process_event"
    /\ st_in.node.fill_err = Rungs
    /\ ~st_out.panicked
    /\ st_out.action.some
    /\ DOMAIN st_self.pool_map = {st_in.event.event.logs[1]}

\* The (sender, nonce) pairs of a txpool_content answer.
PendingKeys(pending) ==
    UNION {{<<a, n>> : n \in DOMAIN pending[a]} : a \in DOMAIN pending}

\* When the node's txpool query fails, get_event_stream returns the error
\* "Failed to create mempool stream" and no stream; when the query succeeds
\* it returns the stream of exactly the pending transactions.
StreamOfPendingOnly ==
    fn_call.fn = "get_event_stream"
    => IF ~fn_call.arg.ok
       THEN /\ ~fn_out.ok
            /\ fn_out.value = "Failed to create mempool stream"
       ELSE /\ fn_out.ok
            /\ Len(fn_out.value) = Cardinality(PendingKeys(fn_call.arg.value.pending))
            /\ \A k \in PendingKeys(fn_call.arg.value.pending) :
                 \E i \in 1..Len(fn_out.value) :
                    fn_out.value[i] = fn_call.arg.value.pending[k[1]][k[2]]

\* The node has answered the txpool query of the collector's task with a
\* failure.
SourceUnavailable ==
    /\ fn_call.fn = "collect"
    /\ fn_out.status # "awaiting"
    /\ ~fn_call.arg.answer.ok

\* C23: when the txpool query of a GenericMempoolCollector fails,
\* get_event_stream returns the error "Failed to create mempool stream" and
\* no stream, so that the collector's task ends with that error and no event
\* is ever published; and only that task is affected: the step that ends it
\* leaves the strategy task and what it has taken from the bus as they were,
\* and the strategy task is running ever after.
C23_SourceUnavailable ==
    /\ [](SourceUnavailable
          => /\ fn_out.error = "Failed to create mempool stream"
             /\ fn_out.stream = << >>
             /\ fn_out.published = << >>
             /\ fn_out.status = "failed"
             /\ fn_out.subscriber = "running")
    /\ [][(fn_out'.status = "failed" /\ fn_out.status # "failed")
          => /\ fn_out'.subscriber = fn_out.subscriber
             /\ fn_out'.taken = fn_out.taken
             /\ fn_out'.published = fn_out.published]_vars

\* The txpool query failed after the node's txpool had changed while the
\* query was awaited: the collector's task has ended with the error, nothing
\* is published and the strategy task is running.
C23_Witness ==
    /\ SourceUnavailable
    /\ fn_call.arg.at_call.pending # << >>
    /\ fn_call.arg.changes > 0
    /\ fn_out.status = "failed"
    /\ fn_out.error # ""
    /\ fn_out.published = << >>
    /\ fn_out.subscriber = "running"

\* C24: in every interleaving of main with its registration tasks,
\* Arc::into_inner(engine).unwrap() of line 118 finds main's handle the only
\* one left and main goes on to engine.run().
C24_FinalUnwrapSucceeds ==
    [][(mainpc = "into_inner" /\ mainpc' # mainpc)
       => (strong = 1 /\ mainpc' = "run")]_vars

\* C25: when the signer fails on the rungs of a non-empty set S, those rungs
\* alone are lost: generate_bundles does not panic and returns one bundle for
\* each rung that was filled and signed, in ladder order.
C25_SignerFailureEndsRungOnly ==
    (/\ CalledGenerateBundles
     /\ st_in.v3_address \in DOMAIN st_self.pool_map
     /\ st_in.node.gas_price.ok
     /\ st_in.node.block_number.ok
     /\ st_in.node.block_number.value = U64From(17000000)
     /\ st_in.node.sign_err # {})
    => /\ ~st_out.panicked
       /\ Len(st_out.bundles)
            = Len(sizes) - Cardinality(st_in.node.fill_err \cup st_in.node.sign_err)
       /\ \A j \in 1..Len(st_out.bundles) :
            SizeOf(st_out.bundles[j])
              = sizes[RungsOutside(st_in.node.fill_err \cup st_in.node.sign_err)[j]]

\* Ten times a 64-bit value, limb by limb.
TimesTen(v) ==
    LET d == v[4] * 10
        c == v[3] * 10 + d \div LimbBase
        b == v[2] * 10 + c \div LimbBase
        a == v[1] * 10 + b \div LimbBase
    IN  <<a % LimbBase, b % LimbBase, c % LimbBase, d % LimbBase>>

\* The ladder is 10^5, 10^6, .., 10^18: 14 sizes from 100000 on, each ten
\* times the one before.
LadderIsGeometric ==
    /\ Len(sizes) = 14
    /\ sizes[1] = U64From(100000)
    /\ \A i \in 1..(Len(sizes) - 1) : sizes[i + 1] = TimesTen(sizes[i])

\* The backrun size of a transaction handed to fill_transaction.
SizeTried(tx) == tx.amounts[1]

\* C26: a generate_bundles call for a known pool, with a node that reports
\* its gas price and block number and a signer that signs, tries the 14 sizes
\* 10^5 .. 10^18 in ascending order, one fill_transaction each, and the
\* bundles it returns are in ascending size order.
C26_LadderSizesInOrder ==
    CalledOnKnownPool
    => /\ LadderIsGeometric
       /\ ~st_out.panicked
       /\ Len(st_out.fills) = Len(sizes)
       /\ \A i \in 1..Len(st_out.fills) : SizeTried(st_out.fills[i]) = sizes[i]
       /\ \A j \in 1..Len(st_out.bundles) :
            SizeOf(st_out.bundles[j]) = sizes[RungsOutside(st_in.node.fill_err)[j]]

\* Whatever happens to a generate_bundles call, the sizes it tried are the
\* first sizes of the ladder, in order, and all 14 when it returns.
TriedSizesArePrefix ==
    CalledGenerateBundles
    => /\ LadderIsGeometric
       /\ Len(st_out.fills) <= Len(sizes)
       /\ \A i \in 1..Len(st_out.fills) : SizeTried(st_out.fills[i]) = sizes[i]
       /\ ~st_out.panicked => Len(st_out.fills) = Len(sizes)

\* BundleRequest::make_simple was called.
CalledMakeSimple == fn_call.fn = "make_simple"

\* The block number has 30 blocks above it in the 64-bit range.
BelowTop == ~overflowing_add(fn_call.arg.block_num, U64From(30)).overflow

\* C27: make_simple(block_num, txs) builds a bundle valid for the next 5
\* blocks: it returns a request with inclusion.block = block_num and
\* inclusion.max_block = block_num + 5.
C27_ValidForFiveBlocks ==
    (CalledMakeSimple /\ BelowTop)
    => /\ ~fn_out.panicked
       /\ fn_out.value.inclusion.block = fn_call.arg.block_num
       /\ fn_out.value.inclusion.max_block
            = Some(overflowing_add(fn_call.arg.block_num, U64From(5)).value)

\* 2^64 - 31, the last block number with 30 blocks above it.
LastBelowTop == <<LimbBase - 1, LimbBase - 1, LimbBase - 1, LimbBase - 31>>

\* C28: for every 64-bit block number b, make_simple(b, _) builds a request
\* with inclusion.block = b and inclusion.max_block = min(b + 30, 2^64 - 1):
\* b + 30 up to b = 2^64 - 31 and 2^64 - 1 above, never a wrapped sum, so
\* that block <= max_block.
C28_WindowSaturates ==
    CalledMakeSimple
    => /\ ~fn_out.panicked
       /\ fn_out.value.inclusion.block = fn_call.arg.block_num
       /\ U64Leq(fn_call.arg.block_num, LastBelowTop)
          => fn_out.value.inclusion.max_block
               = Some(overflowing_add(fn_call.arg.block_num, U64From(30)).value)
       /\ ~U64Leq(fn_call.arg.block_num, LastBelowTop)
          => fn_out.value.inclusion.max_block = Some(U64Max)
       /\ U64Leq(fn_out.value.inclusion.block,
                 fn_out.value.inclusion.max_block.value)

\* No make_simple call returns: every one ends in the panic of
\* BundleRequest::new.
MakeSimpleNeverReturns == CalledMakeSimple => fn_out.panicked

\* How many of the calls are calls of name.
CountCalls(calls, name) == Cardinality({n \in 1..Len(calls) : calls[n] = name})

\* One generate_bundles call asks the node for its gas price once and for
\* its block number at most once, before the first rung, and every
\* transaction it hands to fill_transaction carries the gas price fetched
\* then and the gas limit 400000.
FetchedOncePerCall ==
    (CalledGenerateBundles /\ st_in.v3_address \in DOMAIN st_self.pool_map)
    => /\ CountCalls(st_out.calls, "get_gas_price") = 1
       /\ st_out.calls[1] = "get_gas_price"
       /\ CountCalls(st_out.calls, "get_block_number")
            = (IF st_in.node.gas_price.ok THEN 1 ELSE 0)
       /\ Len(st_out.calls) >= 2 => st_out.calls[2] = "get_block_number"
       /\ \A i \in 1..Len(st_out.fills) :
            /\ st_out.fills[i].gas_price = st_in.node.gas_price.value
            /\ st_out.fills[i].gas = 400000

\* process_event was called for an event whose first log is of a pool of the
\* table, with a node that reports its gas price and block 17000000 and a
\* signer that signs.
ProcessedKnownPool ==
    /\ CalledProcessEvent
    /\ st_in.event.event.logs # << >>
    /\ st_in.event.event.logs[1] \in DOMAIN st_self.pool_map
    /\ st_in.node.gas_price.ok
    /\ st_in.node.block_number.ok
    /\ st_in.node.block_number.value = U64From(17000000)
    /\ st_in.node.sign_err = {}

\* C30: for an event of a pool of the table, process_event returns an Action
\* with the bundles of the rungs that were not skipped; when every rung was
\* skipped the Action is returned all the same, with an empty bundle list.
C30_KnownPoolEmitsAction ==
    ProcessedKnownPool
    => /\ ~st_out.panicked
       /\ st_out.action.some
       /\ st_out.action.value.variant = "SubmitBundles"
       /\ Len(st_out.action.value.bundles)
            = Len(sizes) - Cardinality(st_in.node.fill_err)

\* When every rung of the ladder is skipped, process_event returns an Action
\* with an empty bundle list.
EmptyLadderStillEmits ==
    (ProcessedKnownPool /\ st_in.node.fill_err = Rungs)
    => /\ ~st_out.panicked
       /\ st_out.action.some
       /\ st_out.action.value.bundles = << >>

\* The event process_event was given, cut down to its first log.
FirstLogOnly(ev) ==
    MEVShareEvent([hash |-> ev.event.hash, logs |-> <<ev.event.logs[1]>>])

\* C31: process_event decides from the address of the first log alone.  Its
\* outcome is the one it has for the event cut down to its first log; when
\* that address is not in the pool table there is no Action and no call to
\* the node, whatever the later logs reference; and one call fetches the gas
\* price at most once, that is, builds at most one ladder.
C31_FirstLogDecides ==
    (CalledProcessEvent /\ st_in.event.event.logs # << >>)
    => /\ st_out = process_event(st_self, FirstLogOnly(st_in.event), st_in.node)
       /\ st_in.event.event.logs[1] \notin DOMAIN st_self.pool_map
          => /\ ~st_out.panicked
             /\ ~st_out.action.some
             /\ st_out.calls = << >>
       /\ CountCalls(st_out.calls, "get_gas_price") <= 1
       /\ CountCalls(st_out.calls, "get_block_number") <= 1
       /\ CountCalls(st_out.calls, "fill_transaction") <= Len(sizes)

\* An event whose first log is of pool_b and whose second log is of pool_a
\* was processed against a table that holds pool_a only, with a node that
\* would have answered: no Action.
C31_Witness ==
    /\ CalledProcessEvent
    /\ st_in.event.event.logs = <<"pool_b", "pool_a">>
    /\ DOMAIN st_self.pool_map = {"pool_a"}
    /\ st_in.node.gas_price.ok
    /\ ~st_out.panicked
    /\ ~st_out.action.some

\* C32: BundleRequest::new returns a request for every input; its version,
\* inclusion and body are the arguments, and its validity and privacy are
\* present with one refund-config entry of 30 percent, no hint flag set and
\* five builder addresses.
C32_NewReturnsRequest ==
    fn_call.fn = "new"
    => /\ ~fn_out.panicked
       /\ fn_out.value.version = fn_call.arg.version
       /\ fn_out.value.inclusion.block = fn_call.arg.block_num
       /\ SameOption(fn_out.value.inclusion.max_block, fn_call.arg.max_block)
       /\ fn_out.value.body = fn_call.arg.transactions
       /\ Len(fn_out.value.validity.refund_config) = 1
       /\ fn_out.value.validity.refund_config[1].percent = 30
       /\ fn_out.value.privacy.hints = NoHints
       /\ Len(fn_out.value.privacy.builders) = 5

\* An array of tags was handed to the PrivacyHint deserializer.
DeserializedTags ==
    /\ fn_call.fn = "deserialize_PrivacyHint"
    /\ fn_call.arg.kind = "array"

\* The set of tags of the array handed to the deserializer.
TagSet == {string_of(fn_call.arg.items[i]) : i \in 1..Len(fn_call.arg.items)}

\* The tags of the wire format.
FixedTags == {TagOrder[i] : i \in 1..Len(TagOrder)}

\* C33: the outcome of deserializing an array of tags is a function of the
\* set of its tags.  When every tag is one of the six, the result has exactly
\* the flags of the tags in the set, in whatever order and however often
\* they came; when a tag is none of the six the array is rejected with
\* "invalid privacy hint".
C33_HintsDependOnTagSet ==
    DeserializedTags
    => /\ TagSet \subseteq FixedTags
          => /\ fn_out.ok
             /\ \A t \in FixedTags : fn_out.value[t] = (t \in TagSet)
       /\ ~(TagSet \subseteq FixedTags)
          => /\ ~fn_out.ok
             /\ fn_out.value = "invalid privacy hint"

\* The array ["hash", "calldata"], out of the wire order, gave the flags
\* calldata and hash.
C33_Witness ==
    /\ DeserializedTags
    /\ TextsOf(fn_call.arg) = <<"hash", "calldata">>
    /\ fn_out.ok
    /\ fn_out.value = [NoHints EXCEPT !.calldata = TRUE, !.hash = TRUE]

\* The array ["logs", "logs"] gave the flag logs alone.
RepeatedTagSeen ==
    /\ DeserializedTags
    /\ TextsOf(fn_call.arg) = <<"logs", "logs">>
    /\ fn_out.ok
    /\ fn_out.value = [NoHints EXCEPT !.logs = TRUE]

\* MevshareExecutor::execute has returned Ok.
MevshareReturned == MevshareCall /\ ex_pc = "done" /\ ex_result = "Ok"

\* C34: MevshareExecutor::execute returns Ok, and nothing else, only when
\* every bundle of the payload has been submitted and its answer, Ok or Err,
\* has been taken; for an empty payload it has returned Ok without any
\* submission; and when every send_bundle request gets an answer, a call
\* that has started returns Ok.
C34_ReturnsAfterAllSubmissions ==
    /\ [](MevshareCall
          => /\ ex_result \in {"Pending", "Ok"}
             /\ (ex_pc = "done") <=> (ex_result = "Ok")
             /\ ex_result = "Ok"
                => /\ ex_stream = Len(ex_action)
                   /\ Len(ex_requests) = Len(ex_action)
                   /\ DOMAIN ex_in_progress = {}
                   /\ {l.bundle : l \in ex_logged} = 1..Len(ex_action)
             /\ ex_action = << >>
                => /\ ex_result = "Ok"
                   /\ ex_requests = << >>
                   /\ ex_logged = {})
    /\ (MevshareCall ~> MevshareReturned)

\* A call over more than 5 bundles has returned Ok after a submission of the
\* last bundle that failed.
C34_Witness ==
    /\ MevshareReturned
    /\ Len(ex_action) > BufferSize
    /\ [bundle |-> Len(ex_action), answer |-> "Err"] \in ex_logged

\* A call on an empty payload has returned Ok with no request made.
EmptyPayloadReturned ==
    /\ MevshareReturned
    /\ ex_action = << >>
    /\ ex_requests = << >>


\* A FlashbotsExecutor::execute call has ended after every transaction of
\* the payload was signed and the node answered the block number.
SignedAndNumbered ==
    /\ FlashbotsCall
    /\ ex_pc = "done"
    /\ ex_env.sign_err = {}
    /\ ex_env.block_number.ok

\* The requests of the call to the relay, in the order they were made.
RelayCalls ==
    SelectSeq(ex_requests,
              LAMBDA c : c.method \in {"eth_callBundle", "eth_sendBundle"})

\* The call made two requests to its relay, the last two of the call: the
\* simulation and then the one send of the same bundle, which holds the
\* payload's transactions in order, targets the block after the one the node
\* answered and is simulated on the block the node answered; and the call
\* returned Ok.
SimulatedThenSentOnce ==
    /\ Len(RelayCalls) = 2
    /\ Len(ex_requests) >= 2
    /\ ex_requests[Len(ex_requests) - 1] = RelayCalls[1]
    /\ ex_requests[Len(ex_requests)] = RelayCalls[2]
    /\ RelayCalls[1].method = "eth_callBundle"
    /\ RelayCalls[2].method = "eth_sendBundle"
    /\ \A k \in 1..2 :
        /\ RelayCalls[k].url = ex_self.fb_client.relay_url.serialization
        /\ RelayCalls[k].params[1].block
             = add(ex_env.block_number.value, U64From(1)).value
        /\ ~add(ex_env.block_number.value, U64From(1)).panicked
        /\ RelayCalls[k].params[1].simulation_block = ex_env.block_number.value
        /\ RelayCalls[k].params[1].transactions
             = [i \in 1..Len(ex_action) |-> [rlp_signed |-> ex_action[i]]]
    /\ ex_result = "Ok"

\* C35 as stated: once every transaction is signed and the block number is
\* obtained, FlashbotsExecutor::execute simulates the bundle and then sends
\* it exactly once, for block current + 1, whether the simulation fails or
\* not.
C35_SimulatedThenSentAlways ==
    SignedAndNumbered => SimulatedThenSentOnce

\* C35, amended: once every transaction is signed and the block number is
\* obtained, FlashbotsExecutor::execute simulates the bundle and then sends
\* it exactly once, for block current + 1, whether the simulation fails or
\* not, unless the block number obtained is the largest 64-bit number: then
\* current + 1 overflows and the call panics before any relay call.
C35_SimulatedThenSentUnlessOverflow ==
    SignedAndNumbered =>
        IF ex_env.block_number.value = U64Max
        THEN ex_result = "Panicked" /\ RelayCalls = << >>
        ELSE SimulatedThenSentOnce

\* A call on two transactions at block 17000000 whose simulation failed has
\* returned Ok after the simulation and the send.
C35_Witness ==
    /\ SignedAndNumbered
    /\ Len(ex_action) = 2
    /\ ex_env.block_number.value = U64From(17000000)
    /\ ex_env.simulate = "Err"
    /\ Len(RelayCalls) = 2
    /\ ex_result = "Ok"

\* A call whose node answered the largest block number has panicked.
BlockNumberOverflowSeen ==
    /\ SignedAndNumbered
    /\ ex_env.block_number.value = U64Max
    /\ ex_result = "Panicked"


\* A FlashbotsExecutor::execute call during which the signing of a
\* transaction of the payload fails or the node does not answer the block
\* number.
SigningOrNumberFailed ==
    /\ FlashbotsCall
    /\ ex_env.sign_err # {} \/ ~ex_env.block_number.ok

\* The requests the call made for signatures.
SignCalls ==
    SelectSeq(ex_requests, LAMBDA c : c.method = "sign_transaction")

\* C36: when the signing of a transaction of the payload fails or the block
\* number lookup fails, FlashbotsExecutor::execute makes no request to the
\* relay, neither a simulation nor a send, of any bundle, at any point of
\* the call, and it returns Err; after a failed signing no later transaction
\* is signed and the block number is not asked for.
C36_FailureBeforeAnyRelayCall ==
    SigningOrNumberFailed =>
        /\ RelayCalls = << >>
        /\ \A k \in 1..Len(ex_requests) :
             ex_requests[k].url # ex_self.fb_client.relay_url.serialization
        /\ ex_result \in {"Pending", "Err"}
        /\ ex_pc = "done" => ex_result = "Err"
        /\ ex_env.sign_err # {}
           => /\ Len(SignCalls) <= FirstSignErr(Len(ex_action), ex_env.sign_err)
              /\ ex_requests = SignCalls
              /\ ex_pc = "done"
                 => Len(SignCalls) = FirstSignErr(Len(ex_action), ex_env.sign_err)

\* A call on two transactions has returned Err after the first was signed
\* and the signing of the second failed.
C36_Witness ==
    /\ SigningOrNumberFailed
    /\ ex_pc = "done"
    /\ Len(ex_action) = 2
    /\ ex_env.sign_err = {2}
    /\ ex_env.block_number.ok
    /\ Len(SignCalls) = 2
    /\ ex_result = "Err"

\* A call whose transactions were all signed has returned Err after the
\* node failed to answer the block number.
NumberFailureSeen ==
    /\ SigningOrNumberFailed
    /\ ex_pc = "done"
    /\ Len(ex_action) = 2
    /\ ex_env.sign_err = {}
    /\ Len(ex_requests) = 3
    /\ ex_result = "Err"


\* A collector task of a GenericMempoolCollector whose txpool query was
\* answered.
Collecting == fn_call.fn = "collect" /\ fn_call.arg.answer.ok

\* The transactions of a pending or queued part of the txpool.
TxsOf(part) == {part[k[1]][k[2]] : k \in PendingKeys(part)}

\* What the stream yields in all: the items published and those to come.
Yielded == fn_out.published \o fn_out.stream

\* The stream yields the pending transactions of the given txpool, each
\* once, and none of its queued ones; the task runs or has ended with the
\* stream empty.
YieldsPendingOf(txpool) ==
    /\ {Yielded[i] : i \in 1..Len(Yielded)} = TxsOf(txpool.pending)
    /\ Len(Yielded) = Cardinality(PendingKeys(txpool.pending))
    /\ \A i \in 1..Len(Yielded) : Yielded[i] \notin TxsOf(txpool.queued)
    /\ fn_out.status \in {"running", "ended"}
    /\ fn_out.status = "ended" => fn_out.stream = << >>

\* C37 as stated: the stream of get_event_stream yields every transaction
\* that was pending at the node when it was called, each exactly once, none
\* of the queued transactions and none that the node took in later; the
\* collector task that drains it ends, and has then published exactly these
\* transactions.
C37_FiniteSnapshot ==
    /\ [](Collecting
          => /\ YieldsPendingOf(fn_call.arg.at_call)
             /\ \A i \in 1..Len(Yielded), k \in 1..MaxLate :
                  Yielded[i] # LateTx(k))
    /\ (Collecting ~> (Collecting /\ fn_out.status = "ended"))

\* C37, amended: the stream is a snapshot of the node's answer to the one
\* txpool query get_event_stream makes.  It yields every transaction of the
\* answer's pending set, each exactly once, and none of the answer's queued
\* set; it is fixed once the answer is in, whatever the txpool held at the
\* call and however it changes afterwards; the collector task that drains it
\* ends, and has then published exactly these transactions.
C37_SnapshotOfAnswer ==
    /\ [](Collecting => YieldsPendingOf(fn_call.arg.answer.value))
    /\ [][Collecting => /\ Collecting'
                        /\ Yielded' = Yielded
                        /\ fn_call'.arg.answer = fn_call.arg.answer]_vars
    /\ (Collecting ~> (Collecting /\ fn_out.status = "ended"))

\* The task has ended after publishing two transactions.  Of the two that
\* were pending at the call, one left the txpool while the call was awaited
\* and was not published; the other was, with the one the node took in
\* meanwhile.  The node held a queued transaction throughout and took in
\* another pending one after its answer, and neither was published.
C37_Witness ==
    /\ Collecting
    /\ fn_out.status = "ended"
    /\ Len(fn_out.published) = 2
    /\ Cardinality(PendingKeys(fn_call.arg.at_call.pending)) = 2
    /\ fn_call.arg.at_call.queued # << >>
    /\ fn_call.arg.answer.value.queued # << >>
    /\ \E tx \in TxsOf(fn_call.arg.at_call.pending) :
        /\ tx \notin TxsOf(fn_call.arg.answer.value.pending)
        /\ \A i \in 1..2 : fn_out.published[i] # tx
    /\ LateTx(1) \in TxsOf(fn_call.arg.answer.value.pending)
    /\ LateTx(2) \in TxsOf(fn_call.arg.node.pending)
    /\ LateTx(2) \notin TxsOf(fn_call.arg.answer.value.pending)
    /\ \E i \in 1..2 : fn_out.published[i] = LateTx(1)
    /\ \A i \in 1..2 : fn_out.published[i] # LateTx(2)

\* The call is suspended at the await of txpool_content: the request is
\* made, and there is no stream and no error yet.
AwaitingTxpool ==
    /\ fn_call.fn = "collect"
    /\ fn_out.status = "awaiting"
    /\ fn_out.stream = << >>
    /\ fn_out.error = ""
    /\ fn_call.arg.late > 0

\* A transaction that was pending at the call and was replaced while the
\* call was awaited is not published: its replacement is.
ReplacedBeforeAnswer ==
    /\ Collecting
    /\ fn_out.status = "ended"
    /\ \E tx \in TxsOf(fn_call.arg.at_call.pending) :
        /\ \A i \in 1..Len(fn_out.published) : fn_out.published[i] # tx
        /\ \E i \in 1..Len(fn_out.published) :
            fn_out.published[i] = [tx EXCEPT !.gas_price = @ + 1]

\* A transaction that was queued at the call and became pending while the
\* call was awaited is published.
PromotedBeforeAnswer ==
    /\ Collecting
    /\ fn_out.status = "ended"
    /\ \E tx \in TxsOf(fn_call.arg.at_call.queued) :
        \E i \in 1..Len(fn_out.published) : fn_out.published[i] = tx

=============================================================================
